---------------------------- MODULE Spec2Model ----------------------------
(***************************************************************************)
(* A state-machine model of GameEngine (src/game.ts): the run status       *)
(* machine, the per-tick update pipeline, room entry and clearing, combat  *)
(* and item pickup.                                                        *)
(*                                                                         *)
(* Units.  Positions and sizes are pixels, as in the source, and every     *)
(* formula of the source is kept in integer arithmetic (Math.floor(a / b)  *)
(* is a \div b).  To keep the set of positions finite the movement speeds  *)
(* of the configuration tables are one tile per tick, unit vectors are     *)
(* quantised to the eight compass directions, and the room is 9 x 5 tiles  *)
(* instead of 15 x 9.  The files ./constants, ./utils, ./dungeon and       *)
(* ./config/* are not part of src/: what the model needs of them is        *)
(* written from the specification (sections 3, 4.2 and 6) and marked so.   *)
(***************************************************************************)
EXTENDS Integers, Sequences, FiniteSets, TLC

(***************************************************************************)
(* Bounds of the model.                                                    *)
(***************************************************************************)
\* Number of distinct run seeds Date.now() may return.
NumSeeds == 1
\* The generator builds at most this many rooms per floor.
MaxRooms == 4
\* Floors beyond this one are not explored (the trapdoor step is not taken).
MaxFloor == 2
MaxExtraEnemies == 0
\* Free play is explored for this many update calls after a run starts.
MaxTicks == 6
\* A siege run has the player walk at most this many times.
MaxSteps == 5
\* A played-through run has the player leave its plan at most this many times.
MaxWalk == 4
\* collectItem is called at most this many times a run on configured items.
MaxItems == 3
\* A run holds at most this many direct calls of another method of the engine.
MaxCalls == 3

(***************************************************************************)
(* CONSTANTS (./constants), scaled to a 9 x 5 tile room.                   *)
(***************************************************************************)
TILE_SIZE == 48
ROOM_COLS == 9
ROOM_ROWS == 5
CANVAS_WIDTH == ROOM_COLS * TILE_SIZE
CANVAS_HEIGHT == ROOM_ROWS * TILE_SIZE
PLAYER_SIZE == 32
ITEM_SIZE == 32
PROJECTILE_SIZE == 8

\* Literal numbers of src/game.ts.
RESTART_HOLD == 60
INVINCIBLE_TICKS == 60
PLAYER_FLASH == 10
ENEMY_FLASH == 5
NOTIF_RESTART_TICKS == 120
NOTIF_HEART_TICKS == 60
NOTIF_ITEM_TICKS == 180
CONTACT_KNOCKBACK == 15
SHOT_KNOCKBACK == 10
SPAWN_MIN_DIST == 150
SPAWN_ATTEMPTS == 10
BOSS_HOLD_DIST == 100
ORBIT_DIST == 150
DASH_ATTACK_TICKS == 20
BOSS_REWARD_OFFSET == 80
INSPECT_RADIUS == 80
MIN_FIRE_RATE == 5
\* Angles are counted in steps of 0.02 rad: a turn is 314 of them.
ORBIT_TURN == 314
\* The enemy speed the source writes as 0.1 (speed / 0.1 is speed in this unit).
ENEMY_BASE_SPEED == 48

Directions == {"UP", "DOWN", "LEFT", "RIGHT"}

(***************************************************************************)
(* Arithmetic helpers.                                                     *)
(***************************************************************************)
Abs(n) == IF n < 0 THEN -n ELSE n
Sgn(n) == IF n < 0 THEN -1 ELSE IF n > 0 THEN 1 ELSE 0
Max(a, b) == IF a >= b THEN a ELSE b
Min(a, b) == IF a <= b THEN a ELSE b
\* a / b cut toward zero, for b > 0.
TruncDiv(a, b) == Sgn(a) * (Abs(a) \div b)

\* distance(a, b) < d, on the top-left corners as utils.distance is called.
distanceLess(a, b, d) == (a.x - b.x) * (a.x - b.x) + (a.y - b.y) * (a.y - b.y) < d * d

\* normalizeVector, quantised to the eight compass directions.
normalizeVector(v) == [x |-> Sgn(v.x), y |-> Sgn(v.y)]

\* checkAABB(a, b): the boxes overlap.
checkAABB(a, b) ==
    /\ a.x < b.x + b.w
    /\ a.x + a.w > b.x
    /\ a.y < b.y + b.h
    /\ a.y + a.h > b.y

(***************************************************************************)
(* SeededRNG (./utils): a linear congruential generator.  The state is a   *)
(* number below RNG_MOD, next() is state / RNG_MOD after one step.         *)
(***************************************************************************)
RNG_MOD == 16
SeededRNG(seed) == seed % RNG_MOD
rngStep(s) == (s * 5 + 3) % RNG_MOD
\* rng.range(lo, hi) = lo + next() * (hi - lo), on integers.
rngRange(s, lo, hi) == lo + (rngStep(s) * (hi - lo)) \div RNG_MOD

RECURSIVE SumWeights(_)
SumWeights(list) ==
    IF list = <<>> THEN 0 ELSE Head(list).weight + SumWeights(Tail(list))

RECURSIVE PickWeighted(_, _)
PickWeighted(list, r) ==
    IF list = <<>> THEN "none"
    ELSE IF r < Head(list).weight * RNG_MOD THEN Head(list).type
    ELSE IF Len(list) = 1 THEN Head(list).type
    ELSE PickWeighted(Tail(list), r - Head(list).weight * RNG_MOD)

\* rng.weightedChoice(list): the type of the chosen entry, "none" on an empty
\* list; one draw is consumed.
weightedChoice(list, s) ==
    IF list = <<>> THEN "none"
    ELSE PickWeighted(list, rngStep(s) * SumWeights(list))


(***************************************************************************)
(* Configuration tables (./config/characters, ./config/enemies,            *)
(* ./config/items).  Rates are percentages: a fireRate modifier of 50      *)
(* stands for a factor 0.5.                                                *)
(***************************************************************************)
CHARACTERS ==
    << [id |-> "alpha",
        baseStats |-> [hp |-> 2, maxHp |-> 3, speed |-> 48, damage |-> 4,
                       fireRate |-> 6, shotSpeed |-> 48, range |-> 144,
                       knockback |-> 0, bulletScale |-> 1, shotSpread |-> 1]],
       [id |-> "beta",
        baseStats |-> [hp |-> 1, maxHp |-> 1, speed |-> 48, damage |-> 4,
                       fireRate |-> 6, shotSpeed |-> 48, range |-> 144,
                       knockback |-> 0, bulletScale |-> 1, shotSpread |-> 1]] >>

ENEMIES ==
    << [type |-> "CHASER", weight |-> 3, minFloor |-> 1, size |-> 32,
        hpBase |-> 2, hpPerLevel |-> 2, speed |-> 48, damage |-> 1,
        fireRate |-> 0, shotSpeed |-> 0, range |-> 0, flying |-> FALSE,
        scoreValue |-> 10],
       [type |-> "SHOOTER", weight |-> 1, minFloor |-> 1, size |-> 32,
        hpBase |-> 2, hpPerLevel |-> 2, speed |-> 0, damage |-> 1,
        fireRate |-> 8, shotSpeed |-> 48, range |-> 300, flying |-> TRUE,
        scoreValue |-> 20],
       [type |-> "DASHER", weight |-> 2, minFloor |-> 2, size |-> 32,
        hpBase |-> 2, hpPerLevel |-> 1, speed |-> 12, damage |-> 1,
        fireRate |-> 0, shotSpeed |-> 0, range |-> 0, flying |-> FALSE,
        scoreValue |-> 25],
       [type |-> "TANK", weight |-> 1, minFloor |-> 2, size |-> 32,
        hpBase |-> 6, hpPerLevel |-> 1, speed |-> 48, damage |-> 1,
        fireRate |-> 0, shotSpeed |-> 0, range |-> 0, flying |-> FALSE,
        scoreValue |-> 30],
       [type |-> "ORBITER", weight |-> 1, minFloor |-> 3, size |-> 32,
        hpBase |-> 2, hpPerLevel |-> 1, speed |-> 48, damage |-> 1,
        fireRate |-> 0, shotSpeed |-> 0, range |-> 0, flying |-> TRUE,
        scoreValue |-> 15] >>

BOSSES ==
    << [type |-> "BOSS", weight |-> 1, minFloor |-> 1, size |-> 64,
        hpBase |-> 4, hpPerLevel |-> 4, speed |-> 48, damage |-> 1,
        fireRate |-> 0, shotSpeed |-> 0, range |-> 0, flying |-> FALSE,
        scoreValue |-> 100] >>

\* A modifier of 0 is an absent (falsy) modifier, as in the source.
NoMods == [maxHp |-> 0, hp |-> 0, damage |-> 0, speed |-> 0, fireRate |-> 0,
           shotSpeed |-> 0, range |-> 0, bulletScale |-> 0, knockback |-> 0,
           shotSpread |-> 0]

ITEMS ==
    << [type |-> "HP_UP", weight |-> 1, stats |-> [NoMods EXCEPT !.maxHp = 1]],
       [type |-> "RAPID_FIRE", weight |-> 1, stats |-> [NoMods EXCEPT !.fireRate = 50]] >>

DROPS ==
    << [type |-> "HEART_PICKUP", weight |-> 1, stats |-> [NoMods EXCEPT !.hp = 1]] >>

\* Array.prototype.find: <<entry>> for the first entry that satisfies the
\* test, <<>> for undefined.
RECURSIVE FindBy(_, _, _)
FindBy(list, field, value) ==
    IF list = <<>> THEN <<>>
    ELSE IF Head(list)[field] = value THEN <<Head(list)>>
    ELSE FindBy(Tail(list), field, value)

(***************************************************************************)
(* Entities.  One record shape serves every variant; a field a variant     *)
(* does not have keeps its default.  The player's id "player" is 0 and     *)
(* uuid() yields positive numbers.  Colour, name, description and visualZ  *)
(* are display data and are left out.  budget, age, ox and oy are not      *)
(* fields of the program: they remember the lifeTime a projectile was      *)
(* spawned with, the number of its updates and where it was spawned.       *)
(***************************************************************************)
PLAYER_ID == 0

Entity(id, type, x, y, w, h) ==
    [id |-> id, type |-> type, x |-> x, y |-> y, w |-> w, h |-> h,
     vx |-> 0, vy |-> 0, kx |-> 0, ky |-> 0,
     markedForDeletion |-> FALSE, flashTimer |-> 0,
     enemyType |-> "", hp |-> 0, maxHp |-> 0, aiState |-> "", timer |-> 0,
     orbitAngle |-> 0, flying |-> FALSE,
     stats |-> [speed |-> 0, damage |-> 0, fireRate |-> 0, shotSpeed |-> 0, range |-> 0],
     ownerId |-> -1, damage |-> 0, knockback |-> 0, lifeTime |-> 0,
     itemType |-> "", choiceGroupId |-> "",
     budget |-> 0, age |-> 0, ox |-> x, oy |-> y]

RECURSIVE IdsOf(_)
IdsOf(list) == IF list = <<>> THEN {} ELSE {Head(list).id} \cup IdsOf(Tail(list))

RECURSIVE SavedIds(_)
SavedIds(rooms) ==
    IF rooms = <<>> THEN {}
    ELSE IdsOf(Head(rooms).savedEntities) \cup SavedIds(Tail(rooms))

\* uuid(): an identifier no entity of the run carries; the least one is taken.
uuid(g) ==
    LET used == IdsOf(g.entities) \cup SavedIds(g.dungeon)
    IN  CHOOSE n \in 1..(Cardinality(used) + 1) :
            /\ n \notin used
            /\ \A m \in 1..(n - 1) : m \in used

(***************************************************************************)
(* The dungeon generator (./dungeon): generateDungeon and carveDoors.      *)
(* Tiles: 0 empty, 1 wall, 2 rock, 3 door.  A door position holds a wall   *)
(* until carveDoors opens it.                                              *)
(***************************************************************************)
RoomSlots ==
    << [x |-> 0, y |-> 0, type |-> "START"],
       [x |-> 1, y |-> 0, type |-> "NORMAL"],
       [x |-> 0, y |-> -1, type |-> "ITEM"],
       [x |-> 2, y |-> 0, type |-> "BOSS"],
       [x |-> 1, y |-> 1, type |-> "NORMAL"],
       [x |-> 0, y |-> 1, type |-> "NORMAL"] >>

\* Tile coordinates (row, column; 0-based) of the door of each direction.
DoorTile(dir) ==
    CASE dir = "UP" -> [r |-> 0, c |-> ROOM_COLS \div 2]
      [] dir = "DOWN" -> [r |-> ROOM_ROWS - 1, c |-> ROOM_COLS \div 2]
      [] dir = "LEFT" -> [r |-> ROOM_ROWS \div 2, c |-> 0]
      [] dir = "RIGHT" -> [r |-> ROOM_ROWS \div 2, c |-> ROOM_COLS - 1]

DirOffset(dir) ==
    CASE dir = "UP" -> [x |-> 0, y |-> -1]
      [] dir = "DOWN" -> [x |-> 0, y |-> 1]
      [] dir = "LEFT" -> [x |-> -1, y |-> 0]
      [] dir = "RIGHT" -> [x |-> 1, y |-> 0]

\* A walled room, with one rock when rock is set.
BaseLayout(rock) ==
    [r \in 1..ROOM_ROWS |->
        [c \in 1..ROOM_COLS |->
            IF r = 1 \/ r = ROOM_ROWS \/ c = 1 \/ c = ROOM_COLS THEN 1
            ELSE IF rock /\ r = 2 /\ c = 3 THEN 2
            ELSE 0]]

\* carveDoors(layout, doors): the door tile of every flagged direction is opened.
carveDoors(layout, doors) ==
    [r \in 1..ROOM_ROWS |->
        [c \in 1..ROOM_COLS |->
            IF \E d \in Directions :
                   doors[d] /\ DoorTile(d).r = r - 1 /\ DoorTile(d).c = c - 1
            THEN 3
            ELSE layout[r][c]]]

\* The doors of a room are open in its layout.
DoorsCarved(room) ==
    \A d \in Directions :
        room.doors[d] => room.layout[DoorTile(d).r + 1][DoorTile(d).c + 1] = 3

generateDungeon(level, seed, roomCount) ==
    LET n == Min(Min(roomCount, MaxRooms), Len(RoomSlots))
        mirror == (seed + level) % 2 = 0
        at(i) == [x |-> IF mirror THEN -RoomSlots[i].x ELSE RoomSlots[i].x,
                  y |-> RoomSlots[i].y]
        has(i, d) == \E j \in 1..n :
                        /\ at(j).x = at(i).x + DirOffset(d).x
                        /\ at(j).y = at(i).y + DirOffset(d).y
    IN  [i \in 1..n |->
            [x |-> at(i).x, y |-> at(i).y, type |-> RoomSlots[i].type,
             cleared |-> FALSE, visited |-> FALSE, itemCollected |-> FALSE,
             seed |-> seed + i,
             savedEntities |-> <<>>,
             doors |-> [d \in Directions |-> has(i, d)],
             layout |-> BaseLayout(RoomSlots[i].type = "NORMAL" /\ (seed + i) % 2 = 0)]]

(***************************************************************************)
(* The engine.  An engine value g is a record of the fields of GameEngine  *)
(* and of ev, the log of what the running operation did (not program       *)
(* state: the claims read it).  currentRoom is an index into dungeon,      *)
(* 0 for null.                                                             *)
(***************************************************************************)
NoEvents ==
    [op |-> "init", pause |-> FALSE, restart |-> FALSE,
     statusBefore |-> "MENU", prevPause |-> FALSE, heldCount |-> 0,
     hitGap |-> 0, toggled |-> FALSE, started |-> 0, loads |-> 0,
     ui |-> 0, ran |-> FALSE, hits |-> 0, blocked |-> FALSE,
     blockedChanged |-> FALSE,
     carveUncleared |-> FALSE, doorExits |-> 0, doorExitUncleared |-> FALSE,
     evalEmpty |-> FALSE, evalCleared |-> FALSE, clearedWithEnemy |-> FALSE,
     enterEmpty |-> FALSE, enterEmptyLocked |-> FALSE,
     lastKill |-> FALSE, skipped |-> FALSE, markedUpdated |-> FALSE,
     lostEarly |-> FALSE, swept |-> FALSE, groups |-> <<>>, siblings |-> 0,
     bossClears |-> 0, rewards |-> <<>>, mods |-> NoMods, expired |-> {},
     exitRoom |-> 0, exitSet |-> <<>>, enterSet |-> <<>>, known |-> FALSE,
     prior |-> <<>>, post |-> <<>>, gate |-> "", shown |-> <<>>,
     spawnKey |-> <<>>, roomCount |-> <<>>, door |-> <<>>, doorMiss |-> FALSE,
     threw |-> FALSE, draws |-> <<>>, kills |-> <<>>, lookup |-> <<>>,
     death |-> <<>>, shots |-> <<>>, fire |-> <<>>, shotSince |-> 0,
     shotRate |-> 0, entered |-> <<>>, floor |-> <<>>, wall |-> <<>>,
     ai |-> <<>>, afterResume |-> FALSE]

createPlayer(characterId) ==
    LET found == FindBy(CHARACTERS, "id", characterId)
        config == IF found = <<>> THEN CHARACTERS[1] ELSE found[1]
    IN  [id |-> PLAYER_ID, type |-> "PLAYER",
         x |-> CANVAS_WIDTH \div 2 - PLAYER_SIZE \div 2,
         y |-> CANVAS_HEIGHT \div 2 - PLAYER_SIZE \div 2,
         w |-> PLAYER_SIZE, h |-> PLAYER_SIZE,
         vx |-> 0, vy |-> 0, kx |-> 0, ky |-> 0,
         markedForDeletion |-> FALSE,
         stats |-> config.baseStats,
         cooldown |-> 0, invincibleTimer |-> 0, flashTimer |-> 0,
         inventory |-> <<>>]

\* new GameEngine(onUiUpdate)
NewEngine ==
    [status |-> "MENU", floorLevel |-> 1, baseSeed |-> 0, score |-> 0,
     player |-> createPlayer("alpha"), entities |-> <<>>, currentRoom |-> 0,
     dungeon |-> <<>>, notification |-> "", notificationTimer |-> 0,
     restartTimer |-> 0, pauseLocked |-> FALSE, characterId |-> "alpha",
     ev |-> NoEvents]

RECURSIVE CountType(_, _)
CountType(list, type) ==
    IF list = <<>> THEN 0
    ELSE (IF Head(list).type = type THEN 1 ELSE 0) + CountType(Tail(list), type)

\* carveDoors applied to room ri of the engine; the log notes a room that is
\* not cleared at that moment.
CarveRoom(g, ri) ==
    [g EXCEPT !.dungeon[ri].layout = carveDoors(@, g.dungeon[ri].doors),
              !.ev.carveUncleared = @ \/ ~g.dungeon[ri].cleared]

(***************************************************************************)
(* Spawn operations.                                                       *)
(***************************************************************************)
Push(g, e) == [g EXCEPT !.entities = Append(@, e)]

Enemy(id, config, x, y, floorLevel, angle) ==
    LET hp == config.hpBase + floorLevel * config.hpPerLevel
    IN  [Entity(id, "ENEMY", x, y, config.size, config.size) EXCEPT
            !.enemyType = config.type, !.hp = hp, !.maxHp = hp,
            !.aiState = "IDLE", !.timer = 0, !.orbitAngle = angle,
            !.flying = config.flying,
            !.stats = [speed |-> config.speed, damage |-> config.damage,
                       fireRate |-> config.fireRate,
                       shotSpeed |-> config.shotSpeed, range |-> config.range]]

spawnBoss(g, x, y) ==
    LET config == BOSSES[1]
    IN  Push(g, Enemy(uuid(g), config, x - config.size \div 2,
                      y - config.size \div 2, g.floorLevel, 0))

spawnPedestal(g, x, y) ==
    Push(g, Entity(uuid(g), "PEDESTAL", x - ITEM_SIZE \div 2,
                   y - ITEM_SIZE \div 2 + 8, ITEM_SIZE, ITEM_SIZE))

\* spawnItem with a seed, as every caller in the engine passes one; items
\* is the table ITEMS.  The log notes whether the draw chose an entry and
\* how many entities the call pushed.
spawnItemFrom(items, g, x, y, seed, choiceGroupId) ==
    LET g1 == spawnPedestal(g, x, y)
        type == weightedChoice(items, SeededRNG(seed))
        drawn(h) == [h EXCEPT !.ev.draws =
                        Append(@, [op |-> "spawnItem", chosen |-> type # "none",
                                   pushed |-> Len(h.entities) - Len(g.entities)])]
    IN  IF type = "none" THEN drawn(g1)
        ELSE drawn(Push(g1, [Entity(uuid(g1), "ITEM", x - ITEM_SIZE \div 2,
                                    y - ITEM_SIZE \div 2, ITEM_SIZE, ITEM_SIZE)
                             EXCEPT !.itemType = type,
                                    !.choiceGroupId = choiceGroupId]))

spawnItem(g, x, y, seed, choiceGroupId) ==
    spawnItemFrom(ITEMS, g, x, y, seed, choiceGroupId)

spawnPickup(g, x, y) ==
    Push(g, [Entity(uuid(g), "ITEM", x - 8, y - 8, 16, 16)
             EXCEPT !.itemType = DROPS[1].type])

spawnTrapdoor(g, x, y) ==
    Push(g, Entity(uuid(g), "TRAPDOOR", x - 24, y - 24, 48, 48))

\* A tile outside the grid, a wall or a rock.
TileAt(layout, r, c) ==
    IF r < 0 \/ r >= Len(layout) \/ c < 0 \/ c >= Len(layout[1]) THEN -1
    ELSE layout[r + 1][c + 1]

checkTileBlocked(layout, x, y, size) ==
    \E p \in {<<x, y>>, <<x + size, y>>, <<x, y + size>>, <<x + size, y + size>>} :
        LET tile == TileAt(layout, p[2] \div TILE_SIZE, p[1] \div TILE_SIZE)
        IN  tile = -1 \/ tile = 1 \/ tile = 2

\* The placement attempts of one enemy: up to SPAWN_ATTEMPTS pairs of draws.
RECURSIVE TryPlace(_, _, _, _, _)
TryPlace(s, attempt, size, layout, player) ==
    IF attempt >= SPAWN_ATTEMPTS THEN [valid |-> FALSE, x |-> 0, y |-> 0, s |-> s]
    ELSE LET s1 == rngStep(s)
             s2 == rngStep(s1)
             ex == TILE_SIZE * 2 + (s1 * (CANVAS_WIDTH - TILE_SIZE * 4)) \div RNG_MOD
             ey == TILE_SIZE * 2 + (s2 * (CANVAS_HEIGHT - TILE_SIZE * 4)) \div RNG_MOD
         IN  IF distanceLess([x |-> ex, y |-> ey], player, SPAWN_MIN_DIST)
             THEN TryPlace(s2, attempt + 1, size, layout, player)
             ELSE IF checkTileBlocked(layout, ex, ey, size)
             THEN TryPlace(s2, attempt + 1, size, layout, player)
             ELSE [valid |-> TRUE, x |-> ex, y |-> ey, s |-> s2]

RECURSIVE SpawnLoop(_, _, _, _, _, _)
SpawnLoop(g, layout, validEnemies, i, count, s) ==
    IF i >= count THEN g
    ELSE LET type == weightedChoice(validEnemies, s)
             s1 == IF validEnemies = <<>> THEN s ELSE rngStep(s)
         IN  IF type = "none"
             THEN SpawnLoop([g EXCEPT !.ev.draws =
                                Append(@, [op |-> "spawnEnemiesForRoom",
                                           chosen |-> FALSE, pushed |-> 0])],
                            layout, validEnemies, i + 1, count, s1)
             ELSE LET config == FindBy(validEnemies, "type", type)[1]
                      place == TryPlace(s1, 0, config.size, layout, g.player)
                  IN  IF ~place.valid
                      THEN SpawnLoop(g, layout, validEnemies, i + 1, count, place.s)
                      ELSE LET s2 == rngStep(place.s)
                               \* orbitAngle = rng.next() * 2 * PI
                               angle == (s2 * ORBIT_TURN) \div RNG_MOD
                           IN  SpawnLoop(Push(g, Enemy(uuid(g), config, place.x, place.y,
                                                       g.floorLevel, angle)),
                                         layout, validEnemies, i + 1, count, s2)

\* rnd is Math.floor(Math.random() * 3).
spawnEnemiesForRoom(g, ri, rnd) ==
    LET room == g.dungeon[ri]
        count == 2 + rnd + g.floorLevel
        validEnemies == SelectSeq(ENEMIES, LAMBDA e : e.minFloor <= g.floorLevel)
    IN  IF room.type = "ITEM" THEN g
        ELSE [SpawnLoop(g, room.layout, validEnemies, 0, count,
                        SeededRNG(room.seed + 100))
              EXCEPT !.ev.spawnKey = <<[seed |-> room.seed, type |-> room.type,
                                        floorLevel |-> g.floorLevel,
                                        layout |-> room.layout,
                                        x |-> g.player.x, y |-> g.player.y]>>]

(***************************************************************************)
(* Room entry and floor loading.                                           *)
(***************************************************************************)
Clamp(v, lo, hi) == Max(lo, Min(v, hi))

\* Variant of the placement that puts the player at the edge it came through.
PlacePlayerSameEdge(p, inputDir) ==
    LET cx == CANVAS_WIDTH \div 2
        cy == CANVAS_HEIGHT \div 2
        offset == TILE_SIZE + 16
        q == [p EXCEPT !.kx = 0, !.ky = 0]
    IN  CASE inputDir = "DOWN" -> [q EXCEPT !.y = CANVAS_HEIGHT - offset - p.h]
          [] inputDir = "UP" -> [q EXCEPT !.y = offset]
          [] inputDir = "RIGHT" -> [q EXCEPT !.x = CANVAS_WIDTH - offset - p.w]
          [] inputDir = "LEFT" -> [q EXCEPT !.x = offset]
          [] OTHER -> [q EXCEPT !.x = cx - p.w \div 2, !.y = cy - p.h \div 2]

\* The position enterRoom gives the player.
PlacePlayer(p, inputDir) ==
    LET cx == CANVAS_WIDTH \div 2
        cy == CANVAS_HEIGHT \div 2
        offset == TILE_SIZE + 16
        doorW == TILE_SIZE * 3
        minX == cx - doorW \div 2
        maxX == cx + doorW \div 2 - p.w
        minY == cy - doorW \div 2
        maxY == cy + doorW \div 2 - p.h
        q == [p EXCEPT !.kx = 0, !.ky = 0]
    IN  CASE inputDir = "UP" ->
                [q EXCEPT !.y = CANVAS_HEIGHT - offset - p.h, !.x = Clamp(p.x, minX, maxX)]
          [] inputDir = "DOWN" ->
                [q EXCEPT !.y = offset, !.x = Clamp(p.x, minX, maxX)]
          [] inputDir = "LEFT" ->
                [q EXCEPT !.x = CANVAS_WIDTH - offset - p.w, !.y = Clamp(p.y, minY, maxY)]
          [] inputDir = "RIGHT" ->
                [q EXCEPT !.x = offset, !.y = Clamp(p.y, minY, maxY)]
          [] OTHER ->
                [q EXCEPT !.x = cx - p.w \div 2, !.y = cy - p.h \div 2]

\* Lines 188-205: restore the saved entities, or generate on the first visit.
RestoreOrGenerate(g, ri) ==
    LET room == g.dungeon[ri]
        cx == CANVAS_WIDTH \div 2
        cy == CANVAS_HEIGHT \div 2
    IN  IF Len(room.savedEntities) > 0
        THEN [g EXCEPT !.entities = @ \o room.savedEntities]
        ELSE IF ~room.visited
        THEN LET g1 == IF room.type = "ITEM" THEN spawnItem(g, cx, cy, room.seed, "")
                       ELSE g
             IN  IF room.type = "BOSS" THEN spawnBoss(g1, cx, cy) ELSE g1
        ELSE g

\* Variant of step 4 that spawns the boss of every boss room not cleared,
\* visited before or not.
SpawnLivingAlways(g, ri, rnd) ==
    LET room == g.dungeon[ri]
    IN  IF ~room.cleared /\ room.type # "START"
        THEN IF room.type = "BOSS"
             THEN spawnBoss(g, CANVAS_WIDTH \div 2, CANVAS_HEIGHT \div 2)
             ELSE IF room.type = "NORMAL" THEN spawnEnemiesForRoom(g, ri, rnd)
             ELSE g
        ELSE g

\* Lines 207-218: the enemies of a room that is not cleared.
SpawnLiving(g, ri, rnd) ==
    LET room == g.dungeon[ri]
    IN  IF ~room.cleared /\ room.type # "START"
        THEN IF room.type = "BOSS" /\ room.visited
             THEN spawnBoss(g, CANVAS_WIDTH \div 2, CANVAS_HEIGHT \div 2)
             ELSE IF room.type = "NORMAL" THEN spawnEnemiesForRoom(g, ri, rnd)
             ELSE g
        ELSE g

\* Variant of openOnEntry that carves the doors of every room entered.
openOnEntryAlways(g, ri) ==
    CarveRoom(IF g.dungeon[ri].type = "ITEM" /\ g.dungeon[ri].itemCollected
              THEN [g EXCEPT !.dungeon[ri].cleared = TRUE]
              ELSE g,
              ri)

\* Variant of openOnEntry that assigns the cleared flag on every entry.
openOnEntryReset(g, ri) ==
    [g EXCEPT !.dungeon[ri].cleared =
                  g.dungeon[ri].type = "ITEM" /\ g.dungeon[ri].itemCollected]

\* The two steps of enterRoom that look at the cleared flag of the room
\* entered: an item room whose item was collected counts as cleared, and a
\* cleared room gets its doors carved.
openOnEntry(g, ri) ==
    LET g1 == IF g.dungeon[ri].type = "ITEM" /\ g.dungeon[ri].itemCollected
              THEN [g EXCEPT !.dungeon[ri].cleared = TRUE]
              ELSE g
    IN  IF g1.dungeon[ri].cleared THEN CarveRoom(g1, ri) ELSE g1

\* Variant of step 1 that saves every unmarked entity of the room left.
saveRoomAll(g) ==
    IF g.currentRoom # 0
    THEN [g EXCEPT !.dungeon[g.currentRoom].savedEntities =
              SelectSeq(g.entities, LAMBDA e : ~e.markedForDeletion)]
    ELSE g

\* Step 1 of enterRoom: the persistent entities of the room that is left are
\* saved in it.
saveRoom(g) ==
    IF g.currentRoom # 0
    THEN [g EXCEPT !.dungeon[g.currentRoom].savedEntities =
              SelectSeq(g.entities,
                        LAMBDA e : /\ e.type \in {"ITEM", "PEDESTAL", "TRAPDOOR",
                                                   "OBSTACLE"}
                                   /\ ~e.markedForDeletion)]
    ELSE g

\* What enterRoom, called on the engine g0, leaves behind, for the log: the
\* live set has no enemy, and the room is then not both cleared and open;
\* the room left and the live set it was left with; the live set of the room
\* entered; and the room as entered, whether it had been visited, the floor,
\* the place of the player and the live set.
enterLog(g0, g, ri) ==
    [g EXCEPT
        !.ev.entered = Append(@, [type |-> g.dungeon[ri].type,
                                  cleared |-> g.dungeon[ri].cleared,
                                  visited |-> g0.dungeon[ri].visited,
                                  layout |-> g.dungeon[ri].layout,
                                  floorLevel |-> g.floorLevel,
                                  x |-> g.player.x, y |-> g.player.y,
                                  live |-> g.entities]),
        !.ev.exitRoom = g0.currentRoom,
        !.ev.exitSet = IF g0.currentRoom # 0 THEN g0.entities ELSE <<>>,
        !.ev.enterSet = g.entities,
        !.ev.enterEmpty = @ \/ CountType(g.entities, "ENEMY") = 0,
        !.ev.enterEmptyLocked =
            @ \/ (/\ CountType(g.entities, "ENEMY") = 0
                  /\ ~(g.dungeon[ri].cleared /\ DoorsCarved(g.dungeon[ri])))]

\* enterRoom(room, inputDir); inputDir is "NONE" for null.
enterRoom(g, ri, inputDir, rnd) ==
    enterLog(g,
        [SpawnLiving(
            RestoreOrGenerate(
                [openOnEntry([saveRoom(g) EXCEPT !.currentRoom = ri], ri)
                    EXCEPT !.entities = <<>>,
                           !.player = PlacePlayer(@, inputDir)],
                ri),
            ri, rnd)
         EXCEPT !.dungeon[ri].visited = TRUE],
        ri)

\* Variant of the growth loop that draws the increase from 0% to 60%.
RECURSIVE GrowRoomsSlow(_, _, _, _)
GrowRoomsSlow(count, s, i, level) ==
    IF i >= level THEN count
    ELSE LET increasePct == rngRange(s, 0, 60)
         IN  GrowRoomsSlow((count * (100 + increasePct)) \div 100, rngStep(s), i + 1, level)

\* calculateRoomCount(level): 5 rooms grown by 20% to 60% per earlier level.
RECURSIVE GrowRooms(_, _, _, _)
GrowRooms(count, s, i, level) ==
    IF i >= level THEN count
    ELSE LET increasePct == rngRange(s, 20, 60)
         IN  GrowRooms((count * (100 + increasePct)) \div 100, rngStep(s), i + 1, level)

calculateRoomCount(g, level) == GrowRooms(5, SeededRNG(g.baseSeed), 1, level)

\* The index of the first room of the given type, 0 when there is none.
FindRoom(dungeon, type) ==
    IF \E i \in 1..Len(dungeon) : dungeon[i].type = type
    THEN CHOOSE i \in 1..Len(dungeon) :
            /\ dungeon[i].type = type
            /\ \A j \in 1..(i - 1) : dungeon[j].type # type
    ELSE 0

\* loadFloor(level), with the rooms generateDungeon returns passed in as
\* rooms.  The room object that was current belongs to the dungeon
\* that is dropped, so what enterRoom saves into it is lost: currentRoom is
\* null when the start room is entered.
loadFloorWith(g, level, roomCount, rooms, rnd) ==
    LET g1 == [g EXCEPT !.floorLevel = level,
                        !.dungeon = rooms,
                        !.currentRoom = 0,
                        !.ev.loads = @ + 1,
                        !.ev.roomCount = <<[seed |-> g.baseSeed, level |-> level,
                                            count |-> roomCount]>>]
        startRoom == FindRoom(rooms, "START")
    IN  IF startRoom # 0 THEN enterRoom(g1, startRoom, "NONE", rnd) ELSE g1

\* Variant of loadFloor that loads the floor after the one asked for.
loadFloorSkipping(g, level, rnd) ==
    loadFloorWith(g, level + 1, calculateRoomCount(g, level + 1),
                  generateDungeon(level + 1, g.baseSeed + (level + 1) * 1000,
                                  calculateRoomCount(g, level + 1)),
                  rnd)

loadFloor(g, level, rnd) ==
    loadFloorWith(g, level, calculateRoomCount(g, level),
                  generateDungeon(level, g.baseSeed + level * 1000,
                                  calculateRoomCount(g, level)),
                  rnd)

\* The log of a startNewGame that took the engine from g0 to g: what it
\* returns with, and the score and the live set it was called with.
startLogged(g0, g) ==
    [g EXCEPT !.ev.post =
        <<[status |-> g.status, floorLevel |-> g.floorLevel, score |-> g.score,
           restartTimer |-> g.restartTimer, characterId |-> g.characterId,
           player |-> g.player,
           room |-> IF g.currentRoom = 0 THEN "" ELSE g.dungeon[g.currentRoom].type,
           live |-> g.entities,
           scoreBefore |-> g0.score, liveBefore |-> Len(g0.entities)]>>]

\* Variant of startNewGame that keeps the score of the run before.
startNewGameKeeping(g, characterId, seed, rnd) ==
    startLogged(g,
        [loadFloor([g EXCEPT !.characterId = characterId,
                             !.floorLevel = 1,
                             !.baseSeed = seed,
                             !.player = createPlayer(characterId),
                             !.ev.started = @ + 1],
                   1, rnd)
         EXCEPT !.status = "PLAYING", !.restartTimer = 0])

\* startNewGame(characterId); seed is Date.now().
startNewGame(g, characterId, seed, rnd) ==
    startLogged(g,
        [loadFloor([g EXCEPT !.characterId = characterId,
                             !.floorLevel = 1,
                             !.score = 0,
                             !.baseSeed = seed,
                             !.player = createPlayer(characterId),
                             !.ev.started = @ + 1],
                   1, rnd)
         EXCEPT !.status = "PLAYING", !.restartTimer = 0])

\* Variant that releases the pause latch as it resumes.
resumeGameUnlatched(g) ==
    IF g.status = "PAUSED" THEN [g EXCEPT !.status = "PLAYING", !.pauseLocked = FALSE]
    ELSE g

resumeGame(g) ==
    IF g.status = "PAUSED" THEN [g EXCEPT !.status = "PLAYING"] ELSE g

(***************************************************************************)
(* Physics and collision.                                                  *)
(***************************************************************************)
\* k * 0.9, snapped to zero below the threshold (a whole pixel here; 0.1 in
\* the source).
Decay(k) == Sgn(k) * ((Abs(k) * 9) \div 10)

applyPhysics(ent) ==
    LET kx == Decay(ent.kx)
        ky == Decay(ent.ky)
    IN  [ent EXCEPT !.kx = kx, !.ky = ky, !.vx = @ + kx, !.vy = @ + ky]

\* Variant of checkCollision for which a rock stops nothing.
checkCollisionWalls(layout, rect, isFlying) ==
    \E p \in {<<rect.x, rect.y>>, <<rect.x + rect.w, rect.y>>,
              <<rect.x, rect.y + rect.h>>, <<rect.x + rect.w, rect.y + rect.h>>} :
        LET tile == TileAt(layout, p[2] \div TILE_SIZE, p[1] \div TILE_SIZE)
        IN  tile = -1 \/ tile = 1

\* checkCollision of resolveWallCollision: a corner of the rectangle lies on
\* a solid tile or outside the grid.
checkCollision(layout, rect, isFlying) ==
    \E p \in {<<rect.x, rect.y>>, <<rect.x + rect.w, rect.y>>,
              <<rect.x, rect.y + rect.h>>, <<rect.x + rect.w, rect.y + rect.h>>} :
        LET tile == TileAt(layout, p[2] \div TILE_SIZE, p[1] \div TILE_SIZE)
        IN  tile = -1 \/ tile = 1 \/ (~isFlying /\ tile = 2)

resolveWallCollision(layout, ent) ==
    LET getFeetRect(e, x, y) ==
            [x |-> x + 4, y |-> y + e.h \div 2, w |-> e.w - 8, h |-> e.h \div 2]
        nextX == ent.x + ent.vx
        nextY == ent.y + ent.vy
        isFlying == ent.type = "ENEMY" /\ ent.flying
        x1 == IF ~checkCollision(layout, getFeetRect(ent, nextX, ent.y), isFlying)
              THEN nextX ELSE ent.x
        y1 == IF ~checkCollision(layout, getFeetRect(ent, x1, nextY), isFlying)
              THEN nextY ELSE ent.y
    IN  [ent EXCEPT !.x = x1, !.y = y1]

checkWallCollision(layout, ent) ==
    LET tile == TileAt(layout, (ent.y + ent.h \div 2) \div TILE_SIZE,
                               (ent.x + ent.w \div 2) \div TILE_SIZE)
    IN  tile = -1 \/ tile = 1 \/ tile = 2

\* The layout of the current room (this.currentRoom!.layout).
CurrentLayout(g) == g.dungeon[g.currentRoom].layout

(***************************************************************************)
(* Combat.                                                                 *)
(***************************************************************************)
\* Variant of damagePlayer that leaves the status alone.
damagePlayerSurvives(g, amount, knockbackForce, knockbackDir) ==
    IF g.player.invincibleTimer > 0
    THEN g
    ELSE [g EXCEPT !.player.stats.hp = @ - amount,
                   !.player.invincibleTimer = INVINCIBLE_TICKS,
                   !.player.flashTimer = PLAYER_FLASH,
                   !.player.kx = @ + knockbackDir.x * knockbackForce,
                   !.player.ky = @ + knockbackDir.y * knockbackForce]

\* Variant of damagePlayer whose window is one tick short.
damagePlayerShort(g, amount, knockbackForce, knockbackDir) ==
    IF g.player.invincibleTimer > 0
    THEN g
    ELSE LET hp == g.player.stats.hp - amount
         IN  [g EXCEPT !.player.stats.hp = hp,
                       !.player.invincibleTimer = INVINCIBLE_TICKS - 1,
                       !.player.flashTimer = PLAYER_FLASH,
                       !.player.kx = @ + knockbackDir.x * knockbackForce,
                       !.player.ky = @ + knockbackDir.y * knockbackForce,
                       !.status = IF hp <= 0 THEN "GAME_OVER" ELSE @,
                       !.ev.death = IF hp <= 0
                                    THEN <<[hp |-> hp,
                                            inventory |-> g.player.inventory,
                                            score |-> g.score,
                                            floorLevel |-> g.floorLevel]>>
                                    ELSE @]

damagePlayer(g, amount, knockbackForce, knockbackDir) ==
    IF g.player.invincibleTimer > 0
    THEN g
    ELSE LET hp == g.player.stats.hp - amount
         IN  [g EXCEPT !.player.stats.hp = hp,
                       !.player.invincibleTimer = INVINCIBLE_TICKS,
                       !.player.flashTimer = PLAYER_FLASH,
                       !.player.kx = @ + knockbackDir.x * knockbackForce,
                       !.player.ky = @ + knockbackDir.y * knockbackForce,
                       !.status = IF hp <= 0 THEN "GAME_OVER" ELSE @,
                       !.ev.death = IF hp <= 0
                                    THEN <<[hp |-> hp,
                                            inventory |-> g.player.inventory,
                                            score |-> g.score,
                                            floorLevel |-> g.floorLevel]>>
                                    ELSE @]

\* A call this.damagePlayer(...) of updateProjectile or updateEnemy, with the
\* log of what the call did: whether it came while the player was
\* invincible, whether it reduced hp, and whether a call made during
\* invincibility changed hp or knockback.
callDamagePlayer(g, amount, knockbackForce, knockbackDir) ==
    LET out == damagePlayer(g, amount, knockbackForce, knockbackDir)
        invincible == g.player.invincibleTimer > 0
        reduced == out.player.stats.hp < g.player.stats.hp
        touched == \/ out.player.stats.hp # g.player.stats.hp
                   \/ out.player.kx # g.player.kx
                   \/ out.player.ky # g.player.ky
    IN  [out EXCEPT !.ev.blocked = @ \/ invincible,
                    !.ev.blockedChanged = @ \/ (invincible /\ touched),
                    !.ev.hits = @ + (IF reduced THEN 1 ELSE 0)]

\* A live enemy is in the live set.
LiveEnemy(g) ==
    \E k \in 1..Len(g.entities) :
        g.entities[k].type = "ENEMY" /\ ~g.entities[k].markedForDeletion

\* damageEnemy on entity j of the live set; drop is Math.random() < 0.05.
\* The log notes a kill that leaves no live enemy in the live set.
damageEnemy(g, j, amount, knockbackForce, knockbackDir, drop) ==
    LET e == g.entities[j]
        hp == e.hp - amount
        f1 == IF e.enemyType = "TANK" THEN (knockbackForce * 2) \div 10 ELSE knockbackForce
        actualForce == IF e.enemyType = "BOSS" THEN f1 \div 10 ELSE f1
        e1 == [e EXCEPT !.hp = hp, !.flashTimer = ENEMY_FLASH,
                        !.kx = @ + knockbackDir.x * actualForce,
                        !.ky = @ + knockbackDir.y * actualForce,
                        !.markedForDeletion = IF hp <= 0 THEN TRUE ELSE @]
        g1 == [g EXCEPT !.entities[j] = e1]
    IN  IF hp <= 0
        THEN LET found == FindBy(ENEMIES, "type", e.enemyType)
                 config == IF found = <<>> THEN FindBy(BOSSES, "type", e.enemyType)
                           ELSE found
                 gain == 10 + (IF config = <<>> THEN 0 ELSE config[1].scoreValue - 10)
                 g2 == [g1 EXCEPT !.score = @ + gain,
                                  !.ev.lastKill = @ \/ ~LiveEnemy(g1),
                                  !.ev.kills = Append(@, [id |-> e.id,
                                                          enemyType |-> e.enemyType,
                                                          gain |-> gain,
                                                          dead |-> e.markedForDeletion,
                                                          drop |-> drop])]
             IN  IF drop THEN spawnPickup(g2, e.x + e.w \div 2, e.y + e.h \div 2) ELSE g2
        ELSE g1

\* Rotate turns a vector by an angle given by its cosine and sine in
\* thousandths.
spawnProjectile(g, owner, dir) ==
    LET isPlayer == owner.type = "PLAYER"
        stats == owner.stats
        speed == stats.shotSpeed
        damage == stats.damage
        knockback == IF isPlayer THEN stats.knockback ELSE 0
        \* PROJECTILE_SIZE * max(1, damage / 3.5) * bulletScale
        baseSize == IF isPlayer
                    THEN Max(PROJECTILE_SIZE, (PROJECTILE_SIZE * damage * 10) \div 35)
                             * stats.bulletScale
                    ELSE PROJECTILE_SIZE
        proj(h, vx, vy) ==
            [Entity(uuid(h), "PROJECTILE",
                    owner.x + owner.w \div 2 - baseSize \div 2,
                    owner.y + owner.h \div 2 - baseSize \div 2, baseSize, baseSize)
             EXCEPT !.vx = vx, !.vy = vy, !.ownerId = owner.id, !.damage = damage,
                    !.knockback = knockback, !.lifeTime = stats.range,
                    !.budget = stats.range]
        pushProj(h, vx, vy) == Push(h, proj(h, vx * speed, vy * speed))
        Rotate(d, c, sn) == [x |-> d.x * c - d.y * sn, y |-> d.x * sn + d.y * c]
        \* cos(a), sin(a) of the fanned directions, scaled by the speed
        fan(h, c, sn) ==
            LET v == Rotate(normalizeVector(dir), c, sn)
            IN  Push(h, proj(h, TruncDiv(v.x * speed, 1000), TruncDiv(v.y * speed, 1000)))
    IN  IF ~isPlayer \/ stats.shotSpread = 1 THEN pushProj(g, dir.x, dir.y)
        ELSE IF stats.shotSpread = 3
        THEN fan(fan(fan(g, 966, -259), 1000, 0), 966, 259)
        ELSE IF stats.shotSpread = 4
        THEN fan(fan(fan(fan(g, 924, -383), 991, -131), 991, 131), 924, 383)
        ELSE g

(***************************************************************************)
(* The entity loop of update.  A loop value L holds the engine g and the   *)
(* array forEach walks: while attached it is g.entities itself (entities   *)
(* pushed during the walk are appended and not visited); once loadFloor    *)
(* has replaced this.entities the walk goes on over the old array arr,     *)
(* whose objects are no longer part of the engine.                         *)
(***************************************************************************)
Ent(L, i) == IF L.attached THEN L.g.entities[i] ELSE L.arr[i]

PutEnt(L, i, e) ==
    IF L.attached THEN [L EXCEPT !.g.entities[i] = e] ELSE [L EXCEPT !.arr[i] = e]

\* Variant that adds the modifier.
ScaleAdded(v, m) == v + m

\* The percentage modifier m applied to v (v * m / 100).
Scale(v, m) == (v * m) \div 100

\* Variant of the stat block whose hp delta is not capped by maxHp.
applyModsUncapped(s, mods) ==
    LET s1 == IF mods.maxHp # 0
              THEN [s EXCEPT !.maxHp = @ + mods.maxHp,
                             !.hp = Min(s.hp + mods.maxHp, s.maxHp + mods.maxHp)]
              ELSE s
        s2 == IF mods.hp # 0 THEN [s1 EXCEPT !.hp = @ + mods.hp] ELSE s1
        s3 == IF mods.damage # 0 THEN [s2 EXCEPT !.damage = Scale(@, mods.damage)] ELSE s2
        s4 == IF mods.speed # 0 THEN [s3 EXCEPT !.speed = @ + mods.speed] ELSE s3
        s5 == IF mods.fireRate # 0
              THEN [s4 EXCEPT !.fireRate = Max(MIN_FIRE_RATE, Scale(@, mods.fireRate))]
              ELSE s4
        s6 == IF mods.shotSpeed # 0 THEN [s5 EXCEPT !.shotSpeed = @ + mods.shotSpeed] ELSE s5
        s7 == IF mods.range # 0 THEN [s6 EXCEPT !.range = Scale(@, mods.range)] ELSE s6
        s8 == IF mods.bulletScale # 0
              THEN [s7 EXCEPT !.bulletScale = @ + mods.bulletScale] ELSE s7
        s9 == IF mods.knockback # 0
              THEN [s8 EXCEPT !.knockback = Scale(@, mods.knockback)] ELSE s8
    IN  IF mods.shotSpread # 0 THEN [s9 EXCEPT !.shotSpread = mods.shotSpread] ELSE s9

\* Variant of the stat block without the fire-rate floor.
applyModsUnfloored(s, mods) ==
    LET s1 == IF mods.maxHp # 0
              THEN [s EXCEPT !.maxHp = @ + mods.maxHp,
                             !.hp = Min(s.hp + mods.maxHp, s.maxHp + mods.maxHp)]
              ELSE s
        s2 == IF mods.hp # 0 THEN [s1 EXCEPT !.hp = Min(@ + mods.hp, s1.maxHp)] ELSE s1
        s3 == IF mods.damage # 0 THEN [s2 EXCEPT !.damage = Scale(@, mods.damage)] ELSE s2
        s4 == IF mods.speed # 0 THEN [s3 EXCEPT !.speed = @ + mods.speed] ELSE s3
        s5 == IF mods.fireRate # 0
              THEN [s4 EXCEPT !.fireRate = Scale(@, mods.fireRate)]
              ELSE s4
        s6 == IF mods.shotSpeed # 0 THEN [s5 EXCEPT !.shotSpeed = @ + mods.shotSpeed] ELSE s5
        s7 == IF mods.range # 0 THEN [s6 EXCEPT !.range = Scale(@, mods.range)] ELSE s6
        s8 == IF mods.bulletScale # 0
              THEN [s7 EXCEPT !.bulletScale = @ + mods.bulletScale] ELSE s7
        s9 == IF mods.knockback # 0
              THEN [s8 EXCEPT !.knockback = Scale(@, mods.knockback)] ELSE s8
    IN  IF mods.shotSpread # 0 THEN [s9 EXCEPT !.shotSpread = mods.shotSpread] ELSE s9

\* Lines 829-843 of collectItem: the stat deltas of an item, applied in order.
applyMods(s, mods) ==
    LET s1 == IF mods.maxHp # 0
              THEN [s EXCEPT !.maxHp = @ + mods.maxHp,
                             !.hp = Min(s.hp + mods.maxHp, s.maxHp + mods.maxHp)]
              ELSE s
        s2 == IF mods.hp # 0 THEN [s1 EXCEPT !.hp = Min(@ + mods.hp, s1.maxHp)] ELSE s1
        s3 == IF mods.damage # 0 THEN [s2 EXCEPT !.damage = Scale(@, mods.damage)] ELSE s2
        s4 == IF mods.speed # 0 THEN [s3 EXCEPT !.speed = @ + mods.speed] ELSE s3
        s5 == IF mods.fireRate # 0
              THEN [s4 EXCEPT !.fireRate = Max(MIN_FIRE_RATE, Scale(@, mods.fireRate))]
              ELSE s4
        s6 == IF mods.shotSpeed # 0 THEN [s5 EXCEPT !.shotSpeed = @ + mods.shotSpeed] ELSE s5
        s7 == IF mods.range # 0 THEN [s6 EXCEPT !.range = Scale(@, mods.range)] ELSE s6
        s8 == IF mods.bulletScale # 0
              THEN [s7 EXCEPT !.bulletScale = @ + mods.bulletScale] ELSE s7
        s9 == IF mods.knockback # 0
              THEN [s8 EXCEPT !.knockback = Scale(@, mods.knockback)] ELSE s8
    IN  IF mods.shotSpread # 0 THEN [s9 EXCEPT !.shotSpread = mods.shotSpread] ELSE s9

\* The siblings of item: the other items of the live set in its choice group.
Sibling(e, item) ==
    e.type = "ITEM" /\ e.choiceGroupId = item.choiceGroupId /\ e.id # item.id

\* Variant that leaves the siblings of a collected item alone.
keepSiblings(g, item) ==
    IF item.choiceGroupId # ""
    THEN [g EXCEPT !.ev.groups = Append(@, item.choiceGroupId)]
    ELSE g

\* Lines 806-814: the siblings of a collected item are marked.  The log
\* notes the group collected from and how many siblings this marked.
markSiblings(g, item) ==
    IF item.choiceGroupId # ""
    THEN [g EXCEPT !.entities =
                      [k \in 1..Len(g.entities) |->
                          IF Sibling(g.entities[k], item)
                          THEN [g.entities[k] EXCEPT !.markedForDeletion = TRUE]
                          ELSE g.entities[k]],
                   !.ev.groups = Append(@, item.choiceGroupId),
                   !.ev.siblings = @ + Cardinality({k \in 1..Len(g.entities) :
                                        /\ Sibling(g.entities[k], item)
                                        /\ ~g.entities[k].markedForDeletion})]
    ELSE g

\* Lines 816-843 of collectItem: the item enters the inventory, an item room
\* opens, the notification is set and the stat deltas are applied; config is
\* what ITEMS.find returned, <<>> for undefined.
takeItem(g, item, config) ==
    LET g2 == [g EXCEPT !.player.inventory = Append(@, item.itemType)]
        g3 == IF g2.currentRoom # 0
              THEN LET ri == g2.currentRoom
                       h == [g2 EXCEPT !.dungeon[ri].itemCollected = TRUE]
                   IN  IF h.dungeon[ri].type = "ITEM"
                       THEN CarveRoom(
                               [h EXCEPT !.dungeon[ri].cleared = TRUE,
                                         !.ev.clearedWithEnemy = @ \/ LiveEnemy(h)],
                               ri)
                       ELSE h
              ELSE g2
        g4 == [g3 EXCEPT !.notification = item.itemType,
                         !.notificationTimer = NOTIF_ITEM_TICKS]
    IN  IF config # <<>>
        THEN [g4 EXCEPT !.player.stats = applyMods(@, config[1].stats),
                        !.ev.mods = config[1].stats]
        ELSE g4

\* Lines 796-804 of collectItem: a heart heals up to maxHp; config is what
\* DROPS.find returned.
takeHeart(g, config) ==
    LET g1 == IF config # <<>> /\ config[1].stats.hp # 0
              THEN [g EXCEPT !.player.stats.hp =
                       Min(@ + config[1].stats.hp, g.player.stats.maxHp)]
              ELSE g
    IN  [g1 EXCEPT !.notification = "PICKUP_HEART_DESC",
                   !.notificationTimer = NOTIF_HEART_TICKS]

\* collectItem past line 795, for an item whose table entry is config.
collected(g, item, config) ==
    LET h == [g EXCEPT !.ev.lookup = Append(@, [itemType |-> item.itemType,
                                                 found |-> config # <<>>])]
    IN  IF item.itemType = "HEART_PICKUP" THEN takeHeart(h, config)
        ELSE takeItem(markSiblings(h, item), item, config)

\* collectItem(item), item being entity i of the walked array: the item is
\* marked (line 795) and its entry looked up in DROPS or ITEMS.
collectItem(L, i) ==
    [PutEnt(L, i, [Ent(L, i) EXCEPT !.markedForDeletion = TRUE]) EXCEPT
        !.g = collected(@, Ent(L, i),
                        FindBy(IF Ent(L, i).itemType = "HEART_PICKUP" THEN DROPS
                               ELSE ITEMS,
                               "type", Ent(L, i).itemType))]

\* The index of the first enemy of the live set that overlaps p, 0 if none.
FirstEnemyHit(g, p) ==
    LET hit(k) == g.entities[k].type = "ENEMY" /\ checkAABB(p, g.entities[k])
    IN  IF \E k \in 1..Len(g.entities) : hit(k)
        THEN CHOOSE k \in 1..Len(g.entities) :
                hit(k) /\ \A m \in 1..(k - 1) : ~hit(m)
        ELSE 0

\* Lines 670-673: a projectile out of budget is marked.  The log notes its
\* budget, its stride (the Manhattan size of its velocity), the number of
\* its updates and the Manhattan distance from where it was spawned.
expire(L, i, p) ==
    [PutEnt(L, i, [p EXCEPT !.markedForDeletion = TRUE]) EXCEPT
        !.g.ev.expired = @ \cup {[budget |-> p.budget,
                                  stride |-> Abs(p.vx) + Abs(p.vy),
                                  age |-> p.age,
                                  flown |-> Abs(p.x - p.ox) + Abs(p.y - p.oy)]}]

\* Variant of the target check whose projectile flies on after a hit.
projectileHitsThrough(L, i, p, drop) ==
    LET shot(g, target, kind, hp) ==
            [g EXCEPT !.ev.shots = Append(@, [id |-> p.id, owner |-> p.ownerId,
                                              target |-> target, kind |-> kind,
                                              hp |-> hp])]
    IN  IF checkWallCollision(CurrentLayout(L.g), p)
        THEN PutEnt(L, i, [p EXCEPT !.markedForDeletion = TRUE])
        ELSE IF p.ownerId = PLAYER_ID
        THEN IF FirstEnemyHit(L.g, p) = 0 THEN PutEnt(L, i, p)
             ELSE [PutEnt(L, i, p) EXCEPT
                      !.g = damageEnemy(shot(@, @.entities[FirstEnemyHit(L.g, p)].id,
                                             "ENEMY",
                                             @.entities[FirstEnemyHit(L.g, p)].hp),
                                        FirstEnemyHit(L.g, p), p.damage, p.knockback,
                                        normalizeVector([x |-> p.vx, y |-> p.vy]), drop)]
        ELSE IF checkAABB(p, L.g.player)
        THEN [PutEnt(L, i, p) EXCEPT
                 !.g = callDamagePlayer(shot(@, PLAYER_ID, "PLAYER", @.player.stats.hp),
                                        1, SHOT_KNOCKBACK,
                                        normalizeVector([x |-> p.vx, y |-> p.vy]))]
        ELSE PutEnt(L, i, p)

\* Lines 674-695: the moved projectile checked against walls and targets.  The
\* log notes each hit: the projectile, its owner, the entity hit and the hp
\* that entity had.
projectileHits(L, i, p, drop) ==
    LET shot(g, target, kind, hp) ==
            [g EXCEPT !.ev.shots = Append(@, [id |-> p.id, owner |-> p.ownerId,
                                              target |-> target, kind |-> kind,
                                              hp |-> hp])]
    IN  IF checkWallCollision(CurrentLayout(L.g), p)
        THEN PutEnt(L, i, [p EXCEPT !.markedForDeletion = TRUE])
        ELSE IF p.ownerId = PLAYER_ID
        THEN IF FirstEnemyHit(L.g, p) = 0 THEN PutEnt(L, i, p)
             ELSE [PutEnt(L, i, [p EXCEPT !.markedForDeletion = TRUE]) EXCEPT
                      !.g = damageEnemy(shot(@, @.entities[FirstEnemyHit(L.g, p)].id,
                                             "ENEMY",
                                             @.entities[FirstEnemyHit(L.g, p)].hp),
                                        FirstEnemyHit(L.g, p), p.damage, p.knockback,
                                        normalizeVector([x |-> p.vx, y |-> p.vy]), drop)]
        ELSE IF checkAABB(p, L.g.player)
        THEN [PutEnt(L, i, [p EXCEPT !.markedForDeletion = TRUE]) EXCEPT
                 !.g = callDamagePlayer(shot(@, PLAYER_ID, "PLAYER", @.player.stats.hp),
                                        1, SHOT_KNOCKBACK,
                                        normalizeVector([x |-> p.vx, y |-> p.vy]))]
        ELSE PutEnt(L, i, p)

\* Variant of the budget check that lets a projectile with budget 0 fly on.
projectileStepLate(L, i, p, drop) ==
    IF p.lifeTime < 0 THEN expire(L, i, p) ELSE projectileHits(L, i, p, drop)

\* The projectile p, moved and aged, checked for its budget (lines 670-673),
\* then against walls and targets.
projectileStep(L, i, p, drop) ==
    IF p.lifeTime <= 0 THEN expire(L, i, p) ELSE projectileHits(L, i, p, drop)

\* A projectile moved by its velocity and aged by the distance; age counts
\* its updates.
projectileMoved(p) ==
    [p EXCEPT !.x = @ + p.vx, !.y = @ + p.vy,
              !.lifeTime = @ - (Abs(p.vx) + Abs(p.vy)),
              !.age = @ + 1]

\* updateProjectile(p), p being entity i of the walked array.
updateProjectile(L, i, drop) == projectileStep(L, i, projectileMoved(Ent(L, i)), drop)

\* The period of the only reader of an enemy's tick counter (timer % 5,
\* timer % 10, timer % fireRate); the counter is kept below it.  A dasher's
\* counter is compared and reset, so it is kept as it is.
TimerPeriod(e) ==
    CASE e.enemyType \in {"CHASER", "BOSS"} -> 5
      [] e.enemyType = "TANK" -> 10
      [] e.enemyType = "SHOOTER" -> Max(1, e.stats.fireRate)
      [] e.enemyType = "ORBITER" -> 1
      [] OTHER -> 0

\* The velocity of e set toward the player, f times its speed.
aimed(e, player, f) ==
    [e EXCEPT !.vx = Sgn(player.x - e.x) * e.stats.speed * f,
              !.vy = Sgn(player.y - e.y) * e.stats.speed * f]

\* The orbiter's step: the angle advances and the velocity closes a
\* twentieth of the way to the point of the orbit.
orbit(e, player, angle) ==
    LET \* cos and sin of the angle, in thousandths, by octant.
        octant == ((angle % ORBIT_TURN) * 8) \div ORBIT_TURN + 1
        cos1000 == <<1000, 707, 0, -707, -1000, -707, 0, 707>>[octant]
        sin1000 == <<0, 707, 1000, 707, 0, -707, -1000, -707>>[octant]
    IN  [e EXCEPT !.orbitAngle = angle,
                  !.vx = TruncDiv((player.x + TruncDiv(cos1000 * ORBIT_DIST, 1000) - e.x)
                                    * (e.stats.speed \div ENEMY_BASE_SPEED), 20),
                  !.vy = TruncDiv((player.y + TruncDiv(sin1000 * ORBIT_DIST, 1000) - e.y)
                                    * (e.stats.speed \div ENEMY_BASE_SPEED), 20)]

\* Variant of the dasher's branch that ends the attack a tick early.
dashShort(e, player) ==
    IF e.aiState = "IDLE"
    THEN IF e.timer > (60 * ENEMY_BASE_SPEED) \div e.stats.speed
         THEN [aimed(e, player, 4) EXCEPT !.aiState = "ATTACK", !.timer = 0]
         ELSE [e EXCEPT !.vx = 0, !.vy = 0]
    ELSE IF e.aiState = "ATTACK" /\ e.timer >= DASH_ATTACK_TICKS
    THEN [e EXCEPT !.aiState = "IDLE", !.timer = 0]
    ELSE e

\* Lines 730-746, the dasher's branch: waitTime is
\* Math.floor(60 / (speed / 0.1)).
dash(e, player) ==
    IF e.aiState = "IDLE"
    THEN IF e.timer > (60 * ENEMY_BASE_SPEED) \div e.stats.speed
         THEN [aimed(e, player, 4) EXCEPT !.aiState = "ATTACK", !.timer = 0]
         ELSE [e EXCEPT !.vx = 0, !.vy = 0]
    ELSE IF e.aiState = "ATTACK" /\ e.timer > DASH_ATTACK_TICKS
    THEN [e EXCEPT !.aiState = "IDLE", !.timer = 0]
    ELSE e

\* The AI branches of updateEnemy, on the enemy e whose timer has advanced:
\* the enemy after its step and whether it fires.
behave(e, player) ==
    IF \/ e.enemyType = "CHASER"
       \/ /\ e.enemyType = "BOSS"
          \* distToPlayer > 100
          /\ (e.x - player.x) * (e.x - player.x) + (e.y - player.y) * (e.y - player.y)
                > BOSS_HOLD_DIST * BOSS_HOLD_DIST
    THEN [e |-> IF e.timer % 5 = 0 THEN aimed(e, player, 1) ELSE e, fire |-> FALSE]
    ELSE IF e.enemyType = "TANK"
    THEN [e |-> IF e.timer % 10 = 0 THEN aimed(e, player, 1) ELSE e, fire |-> FALSE]
    ELSE IF e.enemyType = "ORBITER"
    THEN [e |-> orbit(e, player,
                      (e.orbitAngle + e.stats.speed \div ENEMY_BASE_SPEED) % ORBIT_TURN),
          fire |-> FALSE]
    ELSE IF e.enemyType = "SHOOTER"
    THEN [e |-> [e EXCEPT !.vx = 0, !.vy = 0],
          fire |-> /\ e.timer % Max(1, e.stats.fireRate) = 0
                   /\ distanceLess(e, player, e.stats.range)]
    ELSE IF e.enemyType = "DASHER"
    THEN [e |-> dash(e, player), fire |-> FALSE]
    ELSE [e |-> e, fire |-> FALSE]

\* The behaviour part of updateEnemy (lines 698-746).
enemyBehaviour(e0, player) ==
    behave([e0 EXCEPT !.timer = IF TimerPeriod(e0) = 0 THEN @ + 1
                                ELSE (@ + 1) % TimerPeriod(e0)],
           player)

\* The direction from an entity to the player.
towardPlayer(g, e) == normalizeVector([x |-> g.player.x - e.x, y |-> g.player.y - e.y])

\* updateEnemy(e), e being entity i of the walked array: the enemy fires if
\* its behaviour says so, then moves against the walls (line 748), and the
\* contact check ends the call (lines 750-753).  The log notes, for a boss
\* or a dasher, the enemy as the call gets it and as line 748 leaves it, and
\* where the player is.
updateEnemy(L, i) ==
    LET b == enemyBehaviour(Ent(L, i), L.g.player)
        acted == PutEnt(IF b.fire
                        THEN [L EXCEPT !.g = spawnProjectile(@, b.e,
                                                             towardPlayer(L.g, b.e))]
                        ELSE L,
                        i, resolveWallCollision(CurrentLayout(L.g), b.e))
        logged == IF Ent(L, i).enemyType \in {"BOSS", "DASHER"}
                  THEN [acted EXCEPT !.g.ev.ai =
                           Append(@, [before |-> Ent(L, i), after |-> Ent(acted, i),
                                      px |-> L.g.player.x, py |-> L.g.player.y])]
                  ELSE acted
    IN  IF checkAABB(Ent(logged, i), logged.g.player)
        THEN [logged EXCEPT !.g = callDamagePlayer(@, 1, CONTACT_KNOCKBACK,
                                                   towardPlayer(logged.g, Ent(logged, i)))]
        ELSE logged

\* Lines 550-557: the entity moved (an enemy through applyPhysics, a
\* projectile and a pedestal not here) and its flash timer run down.
entityMoved(e) ==
    [(IF e.type = "ENEMY" THEN applyPhysics(e)
      ELSE IF e.type \notin {"PROJECTILE", "PEDESTAL"}
      THEN [e EXCEPT !.x = @ + e.vx, !.y = @ + e.vy]
      ELSE e)
     EXCEPT !.flashTimer = IF @ > 0 THEN @ - 1 ELSE @]

\* Lines 559-571: what the callback does by the type of entity i.  The log
\* notes a floor advance: the floor, the stats and inventory of the player,
\* the score and the live set it began with.
entityVisit(L, i, rnd) ==
    IF Ent(L, i).type = "PROJECTILE" THEN updateProjectile(L, i, rnd.drop)
    ELSE IF Ent(L, i).type = "ENEMY" THEN updateEnemy(L, i)
    ELSE IF Ent(L, i).type = "ITEM"
    THEN IF checkAABB(L.g.player, Ent(L, i)) THEN collectItem(L, i) ELSE L
    ELSE IF Ent(L, i).type = "TRAPDOOR"
    THEN IF checkAABB(L.g.player, Ent(L, i))
         THEN [g |-> [loadFloor(L.g, L.g.floorLevel + 1, rnd.count) EXCEPT
                         !.ev.floor = Append(@, [floorLevel |-> L.g.floorLevel,
                                                 stats |-> L.g.player.stats,
                                                 inventory |-> L.g.player.inventory,
                                                 score |-> L.g.score,
                                                 live |-> IdsOf(L.g.entities)])],
               arr |-> IF L.attached THEN L.g.entities ELSE L.arr,
               attached |-> FALSE]
         ELSE L
    ELSE L

\* The log of a callback that goes on to update entity i: whether the entity
\* was marked.
updateLogged(L, i) ==
    [L EXCEPT !.g.ev.markedUpdated = @ \/ Ent(L, i).markedForDeletion]

\* Variant of the callback without the return of line 548.
WalkStepAll(L, i, rnd) ==
    entityVisit(PutEnt(updateLogged(L, i), i, entityMoved(Ent(L, i))), i, rnd)

\* One callback of this.entities.forEach (lines 547-577); line 548 returns
\* at once on a marked entity.
WalkStep(L, i, rnd) ==
    IF Ent(L, i).markedForDeletion THEN [L EXCEPT !.g.ev.skipped = TRUE]
    ELSE entityVisit(PutEnt(updateLogged(L, i), i, entityMoved(Ent(L, i))), i, rnd)

RECURSIVE Walk(_, _, _, _)
Walk(L, i, n, rnd) ==
    IF i > n THEN L ELSE Walk(WalkStep(L, i, rnd), i + 1, n, rnd)

(***************************************************************************)
(* Enemy separation and door crossing.                                     *)
(***************************************************************************)
\* The indices of the enemies of a list, in order.
RECURSIVE EnemyIndices(_, _)
EnemyIndices(list, k) ==
    IF k > Len(list) THEN <<>>
    ELSE (IF list[k].type = "ENEMY" THEN <<k>> ELSE <<>>) \o EnemyIndices(list, k + 1)

\* The body of the inner loop of resolveEnemyPhysics for the pair (a, b).
separate(ents, a, b) ==
    LET e1 == ents[a]
        e2 == ents[b]
        fly1 == e1.enemyType \in {"SHOOTER", "ORBITER"}
        fly2 == e2.enemyType \in {"SHOOTER", "ORBITER"}
        dx == e1.x - e2.x
        dy == e1.y - e2.y
        d2 == dx * dx + dy * dy
        minDist == e1.w
    IN  IF fly1 \/ fly2 THEN ents
        ELSE IF d2 < minDist * minDist /\ d2 > 0
        THEN LET \* Math.sqrt, cut to a whole number
                 root == CHOOSE k \in 0..minDist : k * k <= d2 /\ d2 < (k + 1) * (k + 1)
                 dist == Max(1, root)
                 overlap == minDist - dist
                 pushX == TruncDiv(dx * overlap, dist * 2)
                 pushY == TruncDiv(dy * overlap, dist * 2)
             IN  [ents EXCEPT ![a].x = @ + pushX, ![a].y = @ + pushY,
                              ![b].x = @ - pushX, ![b].y = @ - pushY]
        ELSE ents

RECURSIVE PairLoop(_, _, _, _)
PairLoop(ents, idx, i, j) ==
    IF i > Len(idx) THEN ents
    ELSE IF j > Len(idx) THEN PairLoop(ents, idx, i + 1, i + 2)
    ELSE PairLoop(separate(ents, idx[i], idx[j]), idx, i, j + 1)

\* The index of the room at the given grid coordinates, 0 when there is none.
RoomAt(dungeon, x, y) ==
    IF \E i \in 1..Len(dungeon) : dungeon[i].x = x /\ dungeon[i].y = y
    THEN CHOOSE i \in 1..Len(dungeon) :
            /\ dungeon[i].x = x /\ dungeon[i].y = y
            /\ \A j \in 1..(i - 1) : ~(dungeon[j].x = x /\ dungeon[j].y = y)
    ELSE 0

checkDoorCollisions(g, rnd) ==
    IF g.currentRoom = 0 THEN g
    ELSE
    LET room == g.dungeon[g.currentRoom]
        p == g.player
        w == CANVAS_WIDTH
        h == CANVAS_HEIGHT
        ts == TILE_SIZE
        doors == room.doors
        cx == w \div 2
        cy == h \div 2
        \* ts * 1.5
        doorSpan == (ts * 3) \div 2
        pCx == p.x + p.w \div 2
        pCy == p.y + p.h \div 2
        up == doors["UP"] /\ p.y < ts /\ Abs(pCx - cx) < doorSpan
        down == doors["DOWN"] /\ p.y > h - ts - p.h /\ Abs(pCx - cx) < doorSpan
        left == doors["LEFT"] /\ p.x < ts /\ Abs(pCy - cy) < doorSpan
        right == doors["RIGHT"] /\ p.x > w - ts - p.w /\ Abs(pCy - cy) < doorSpan
        triggerDir == IF right THEN "RIGHT" ELSE IF left THEN "LEFT"
                      ELSE IF down THEN "DOWN" ELSE IF up THEN "UP" ELSE "NONE"
        nextX == room.x - (IF left THEN 1 ELSE 0) + (IF right THEN 1 ELSE 0)
        nextY == room.y - (IF up THEN 1 ELSE 0) + (IF down THEN 1 ELSE 0)
        nextRoom == RoomAt(g.dungeon, nextX, nextY)
    IN  IF triggerDir # "NONE" /\ nextRoom # 0
        THEN enterRoom([g EXCEPT !.ev.doorExits = @ + 1,
                                 !.ev.doorExitUncleared = @ \/ ~room.cleared,
                                 !.ev.door = Append(@,
                                     [dir |-> triggerDir, open |-> doors[triggerDir],
                                      x |-> room.x, y |-> room.y,
                                      room |-> nextRoom])],
                       nextRoom, triggerDir, rnd)
        ELSE IF triggerDir # "NONE" THEN [g EXCEPT !.ev.doorMiss = TRUE]
        ELSE g

\* Lines 401-451.  nearbyItem is the first of the nearest unmarked items
\* within the inspection radius, boss the last boss of the live set; <<>>
\* stands for null.  The names and descriptions are display data.  Dist4 is
\* four times the squared distance between the centres of the player and e
\* (the centres may lie on half pixels).
getUiState(g) ==
    LET Dist4(h, e) ==
            (2 * e.x + e.w - 2 * h.player.x - h.player.w)
                * (2 * e.x + e.w - 2 * h.player.x - h.player.w)
            + (2 * e.y + e.h - 2 * h.player.y - h.player.h)
                * (2 * e.y + e.h - 2 * h.player.y - h.player.h)
        near == {k \in 1..Len(g.entities) :
                    /\ g.currentRoom # 0
                    /\ g.entities[k].type = "ITEM"
                    /\ ~g.entities[k].markedForDeletion
                    /\ Dist4(g, g.entities[k]) < 4 * INSPECT_RADIUS * INSPECT_RADIUS}
        bosses == {k \in 1..Len(g.entities) :
                    /\ g.currentRoom # 0
                    /\ g.entities[k].type = "ENEMY"
                    /\ g.entities[k].enemyType = "BOSS"}
    IN  [hp |-> g.player.stats.hp,
         maxHp |-> g.player.stats.maxHp,
         floor |-> g.floorLevel,
         score |-> g.score,
         seed |-> g.baseSeed,
         items |-> Len(g.player.inventory),
         notification |-> g.notification,
         dungeon |-> [i \in 1..Len(g.dungeon) |->
                        [x |-> g.dungeon[i].x, y |-> g.dungeon[i].y,
                         type |-> g.dungeon[i].type, visited |-> g.dungeon[i].visited]],
         currentRoomPos |-> IF g.currentRoom # 0
                            THEN [x |-> g.dungeon[g.currentRoom].x,
                                  y |-> g.dungeon[g.currentRoom].y]
                            ELSE [x |-> 0, y |-> 0],
         stats |-> g.player.stats,
         nearbyItem |-> IF near = {} THEN <<>>
                        ELSE LET k == CHOOSE k \in near : \A j \in near :
                                        \/ Dist4(g, g.entities[k]) < Dist4(g, g.entities[j])
                                        \/ /\ Dist4(g, g.entities[k]) = Dist4(g, g.entities[j])
                                           /\ k <= j
                             IN  <<[itemType |-> g.entities[k].itemType,
                                    x |-> g.entities[k].x, y |-> g.entities[k].y,
                                    w |-> g.entities[k].w, h |-> g.entities[k].h]>>,
         boss |-> IF bosses = {} THEN <<>>
                  ELSE LET k == CHOOSE k \in bosses : \A j \in bosses : j <= k
                       IN  <<[hp |-> g.entities[k].hp, maxHp |-> g.entities[k].maxHp]>>]

\* this.onUiUpdate(this.getUiState()); the log keeps the snapshots handed over.
onUiUpdate(g) ==
    [g EXCEPT !.ev.ui = @ + 1, !.ev.shown = Append(@, getUiState(g))]

(***************************************************************************)
(* update(input).  The input is [move, shoot, restart, pause]; shoot.on is *)
(* FALSE for a null shoot vector.  seed is the Date.now() a forced restart *)
(* reads, rnd the outcomes of the Math.random() calls of the tick.         *)
(***************************************************************************)
\* Variant of the pause logic that toggles on every call with pause set.
pauseLogicLevel(g, in) ==
    IF in.pause
    THEN [g EXCEPT !.status = IF @ = "PLAYING" THEN "PAUSED"
                              ELSE IF @ = "PAUSED" THEN "PLAYING" ELSE @,
                   !.pauseLocked = TRUE,
                   !.ev.toggled = g.status \in {"PLAYING", "PAUSED"}]
    ELSE [g EXCEPT !.pauseLocked = FALSE]

\* Toggle Pause Logic
pauseLogic(g, in) ==
    IF in.pause
    THEN IF ~g.pauseLocked
         THEN [g EXCEPT !.status = IF @ = "PLAYING" THEN "PAUSED"
                                   ELSE IF @ = "PAUSED" THEN "PLAYING" ELSE @,
                        !.pauseLocked = TRUE,
                        !.ev.toggled = g.status \in {"PLAYING", "PAUSED"}]
         ELSE g
    ELSE [g EXCEPT !.pauseLocked = FALSE]

\* Variant of the restart hold that fires one call early.
restartLogicEarly(g, in, seed, rnd) ==
    IF in.restart
    THEN LET g1 == [g EXCEPT !.restartTimer = @ + 1]
         IN  IF g1.restartTimer >= RESTART_HOLD
             THEN [startNewGame(g1, g1.characterId, seed, rnd)
                     EXCEPT !.notification = "NOTIF_RESTART",
                            !.notificationTimer = NOTIF_RESTART_TICKS]
             ELSE g1
    ELSE [g EXCEPT !.restartTimer = 0]

\* The restart hold.
restartLogic(g, in, seed, rnd) ==
    IF in.restart
    THEN LET g1 == [g EXCEPT !.restartTimer = @ + 1]
         IN  IF g1.restartTimer > RESTART_HOLD
             THEN [startNewGame(g1, g1.characterId, seed, rnd)
                     EXCEPT !.notification = "NOTIF_RESTART",
                            !.notificationTimer = NOTIF_RESTART_TICKS]
             ELSE g1
    ELSE [g EXCEPT !.restartTimer = 0]

notificationLogic(g) ==
    IF g.notificationTimer > 0
    THEN [g EXCEPT !.notificationTimer = @ - 1,
                   !.notification = IF g.notificationTimer - 1 <= 0 THEN "" ELSE @]
    ELSE g

\* Variant of the firing test that fires one tick early.
fireDueEarly(p, in) == in.shoot.on /\ p.cooldown <= 1

\* Line 507: the shoot intent is there and the cooldown, already counted
\* down for this tick, has run out.
fireDue(p, in) == in.shoot.on /\ p.cooldown <= 0

\* Lines 494-513.  The log notes a firing: the intent, the cooldown the tick
\* began with, the stats fired with and the projectiles pushed.  With no
\* current room, this.currentRoom!.layout in
\* resolveWallCollision (line 848) reads a property of null: the TypeError
\* ends the call of update there, after line 503.
playerLogic(g, in) ==
    LET p1 == IF in.move.x # 0 \/ in.move.y # 0
              THEN [g.player EXCEPT !.vx = in.move.x * g.player.stats.speed,
                                    !.vy = in.move.y * g.player.stats.speed]
              ELSE [g.player EXCEPT !.vx = 0, !.vy = 0]
        p2 == IF g.currentRoom = 0 THEN applyPhysics(p1)
              ELSE resolveWallCollision(CurrentLayout(g), applyPhysics(p1))
        p3 == [p2 EXCEPT !.cooldown = IF @ > 0 THEN @ - 1 ELSE @]
        g1 == [g EXCEPT !.player = p3]
        g2 == IF fireDue(p3, in)
              THEN LET h == spawnProjectile(g1, p3, in.shoot)
                   IN  [h EXCEPT !.player.cooldown = p3.stats.fireRate,
                                 !.ev.fire = Append(@,
                                     [intent |-> in.shoot.on,
                                      cooldown |-> g.player.cooldown,
                                      stats |-> p3.stats,
                                      added |-> SubSeq(h.entities, Len(g1.entities) + 1,
                                                       Len(h.entities))])]
              ELSE g1
    IN  IF g.currentRoom = 0 THEN [g EXCEPT !.player = p2, !.ev.threw = TRUE]
        ELSE [g2 EXCEPT !.player.invincibleTimer = IF @ > 0 THEN @ - 1 ELSE @,
                        !.player.flashTimer = IF @ > 0 THEN @ - 1 ELSE @]

\* The rewards of a cleared boss room: the trapdoor and two items of one
\* choice group, their seeds drawn from new SeededRNG(room.seed + 999).
bossRewards(g, cx, cy) ==
    spawnItem(
        spawnItem(spawnTrapdoor(g, cx, cy), cx - BOSS_REWARD_OFFSET, cy,
                  (rngStep(SeededRNG(g.dungeon[g.currentRoom].seed + 999)) * 10000)
                      \div RNG_MOD,
                  "boss_reward_" \o ToString(g.floorLevel)),
        cx + BOSS_REWARD_OFFSET, cy,
        (rngStep(rngStep(SeededRNG(g.dungeon[g.currentRoom].seed + 999))) * 10000)
            \div RNG_MOD,
        "boss_reward_" \o ToString(g.floorLevel))

\* The log of a boss-room clear that took the engine from g to h: the
\* entities it pushed.
rewardsLogged(g, h) ==
    [h EXCEPT !.ev.bossClears = @ + 1,
              !.ev.rewards = SubSeq(h.entities, Len(g.entities) + 1, Len(h.entities))]

\* Lines 523-538: the drop of a cleared room and the rewards of a boss room.
clearRewards(g, rnd) ==
    IF g.dungeon[g.currentRoom].type = "BOSS"
    THEN rewardsLogged(g,
            bossRewards(IF rnd.clearDrop
                        THEN spawnPickup(g, CANVAS_WIDTH \div 2, CANVAS_HEIGHT \div 2)
                        ELSE g,
                        CANVAS_WIDTH \div 2, CANVAS_HEIGHT \div 2))
    ELSE IF rnd.clearDrop
    THEN spawnPickup(g, CANVAS_WIDTH \div 2, CANVAS_HEIGHT \div 2)
    ELSE g

\* Variant of the clear check that does not look at the cleared flag.
clearCheckAgain(g, rnd) ==
    IF /\ g.currentRoom # 0
       /\ CountType(g.entities, "ENEMY") = 0
       /\ g.dungeon[g.currentRoom].type # "ITEM"
    THEN clearRewards(
             CarveRoom([g EXCEPT !.dungeon[g.currentRoom].cleared = TRUE,
                                 !.ev.evalEmpty = TRUE,
                                 !.ev.evalCleared = TRUE],
                       g.currentRoom),
             rnd)
    ELSE g

\* Lines 516-539, the clear check of the tick: roomIsClear is that the live
\* set holds no enemy.
clearCheck(g, rnd) ==
    IF /\ g.currentRoom # 0
       /\ ~g.dungeon[g.currentRoom].cleared
       /\ CountType(g.entities, "ENEMY") = 0
    THEN IF g.dungeon[g.currentRoom].type # "ITEM"
         THEN clearRewards(
                  CarveRoom([g EXCEPT !.dungeon[g.currentRoom].cleared = TRUE,
                                      !.ev.evalEmpty = TRUE,
                                      !.ev.evalCleared = TRUE],
                            g.currentRoom),
                  rnd)
         ELSE [g EXCEPT !.ev.evalEmpty = TRUE]
    ELSE g

\* Lines 541-543: the doors are looked at in a cleared room only.
doorCheck(g, rnd) ==
    IF g.currentRoom # 0 /\ g.dungeon[g.currentRoom].cleared
    THEN checkDoorCollisions(g, rnd)
    ELSE g

\* Line 545, on the enemies line 516 collected: after a door crossing they
\* are those of the room left, which enterRoom has dropped.
resolveEnemyPhysics(g) ==
    IF g.ev.doorExits > 0 THEN g
    ELSE [g EXCEPT !.entities = PairLoop(@, EnemyIndices(@, 1), 1, 2)]

\* Lines 547-577: forEach over the entities the array holds when it starts.
\* The log notes an entity that left the live set during the walk, the
\* array not having been replaced.
entityLoop(g, rnd) ==
    LET L == Walk([g |-> g, arr |-> <<>>, attached |-> TRUE], 1, Len(g.entities), rnd)
    IN  [L.g EXCEPT !.ev.lostEarly =
            /\ L.attached
            /\ \E k \in 1..Len(g.entities) :
                  \A j \in 1..Len(L.g.entities) :
                     L.g.entities[j].id # g.entities[k].id]

\* Variant of the end of the tick that tells the UI only while the run goes on.
endTickQuiet(g) ==
    IF g.status = "PLAYING"
    THEN onUiUpdate(
             [g EXCEPT !.entities = SelectSeq(@, LAMBDA e : ~e.markedForDeletion),
                       !.ev.swept = \E k \in 1..Len(g.entities) :
                                       g.entities[k].markedForDeletion,
                       !.ev.ran = TRUE])
    ELSE [g EXCEPT !.entities = SelectSeq(@, LAMBDA e : ~e.markedForDeletion),
                   !.ev.swept = \E k \in 1..Len(g.entities) :
                                   g.entities[k].markedForDeletion,
                   !.ev.ran = TRUE]

\* Lines 579-580: the marked entities are dropped and the UI is told.
endTick(g) ==
    onUiUpdate(
        [g EXCEPT !.entities = SelectSeq(@, LAMBDA e : ~e.markedForDeletion),
                  !.ev.swept = \E k \in 1..Len(g.entities) :
                                  g.entities[k].markedForDeletion,
                  !.ev.ran = TRUE])

\* The part of update that runs while PLAYING (lines 487-580); with no
\* current room it ends in the player logic.
simulate(g, in, rnd) ==
    IF g.currentRoom = 0 THEN playerLogic(notificationLogic(g), in)
    ELSE endTick(
            entityLoop(
                resolveEnemyPhysics(
                    doorCheck(clearCheck(playerLogic(notificationLogic(g), in), rnd),
                              rnd.count)),
                rnd))

\* Variant of the status gate that runs the tick of a paused engine.
statusGateRunning(g, in, rnd) ==
    IF g.status = "PAUSED"
    THEN [simulate(g, in, rnd) EXCEPT !.ev.ui = 1]
    ELSE IF g.status # "PLAYING" THEN g
    ELSE simulate(g, in, rnd)

\* Lines 480-485: a paused engine only reports, one that is not playing
\* returns, a playing one runs the tick.
statusGate(g, in, rnd) ==
    IF g.status = "PAUSED" THEN onUiUpdate([g EXCEPT !.ev.gate = "PAUSED"])
    ELSE IF g.status # "PLAYING" THEN [g EXCEPT !.ev.gate = g.status]
    ELSE simulate([g EXCEPT !.ev.gate = "PLAYING"], in, rnd)

\* The log of a call of update that begins.
beginUpdate(g, in) ==
    [g EXCEPT !.ev = [NoEvents EXCEPT !.op = "update",
                                     !.pause = in.pause,
                                     !.restart = in.restart,
                                     !.statusBefore = g.status]]

update(g, in, seed, rnd) ==
    statusGate(restartLogic(pauseLogic(beginUpdate(g, in), in), in, seed, rnd.count),
               in, rnd)

(***************************************************************************)
(* The state machine.  The variables are the fields of the engine, the log *)
(* ev of the last operation, and hist, which remembers across operations   *)
(* what the claims about several calls need: the pause value of the last   *)
(* update, the number of update calls in a row that held restart, and the  *)
(* number of PLAYING ticks since the player last lost hp (counted up to    *)
(* INVINCIBLE_TICKS), the choice groups the run has collected items of,    *)
(* and the rooms of the floor that were left through a door, each with the *)
(* items, pedestals, trapdoors and obstacles that were in the live set,    *)
(* unmarked, when it was last left.  spent is how much of the budget a     *)
(* specification gives a run has been used; a new game starts it afresh.   *)
(***************************************************************************)
VARIABLES status, floorLevel, baseSeed, score, player, entities, currentRoom,
          dungeon, notification, notificationTimer, restartTimer, pauseLocked,
          characterId, ev, hist, spent

vars == <<status, floorLevel, baseSeed, score, player, entities, currentRoom,
          dungeon, notification, notificationTimer, restartTimer, pauseLocked,
          characterId, ev, hist, spent>>

\* The engine as one record.
Engine ==
    [status |-> status, floorLevel |-> floorLevel, baseSeed |-> baseSeed,
     score |-> score, player |-> player, entities |-> entities,
     currentRoom |-> currentRoom, dungeon |-> dungeon,
     notification |-> notification, notificationTimer |-> notificationTimer,
     restartTimer |-> restartTimer, pauseLocked |-> pauseLocked,
     characterId |-> characterId, ev |-> ev]

Commit(g) ==
    /\ status' = g.status
    /\ floorLevel' = g.floorLevel
    /\ baseSeed' = g.baseSeed
    /\ score' = g.score
    /\ player' = g.player
    /\ entities' = g.entities
    /\ currentRoom' = g.currentRoom
    /\ dungeon' = g.dungeon
    /\ notification' = g.notification
    /\ notificationTimer' = g.notificationTimer
    /\ restartTimer' = g.restartTimer
    /\ pauseLocked' = g.pauseLocked
    /\ characterId' = g.characterId
    /\ ev' = g.ev

Began(g, op) == [g EXCEPT !.ev = [NoEvents EXCEPT !.op = op, !.statusBefore = g.status]]

\* The engine the host constructs, before any call.
Init ==
    /\ status = NewEngine.status
    /\ floorLevel = NewEngine.floorLevel
    /\ baseSeed = NewEngine.baseSeed
    /\ score = NewEngine.score
    /\ player = NewEngine.player
    /\ entities = NewEngine.entities
    /\ currentRoom = NewEngine.currentRoom
    /\ dungeon = NewEngine.dungeon
    /\ notification = NewEngine.notification
    /\ notificationTimer = NewEngine.notificationTimer
    /\ restartTimer = NewEngine.restartTimer
    /\ pauseLocked = NewEngine.pauseLocked
    /\ characterId = NewEngine.characterId
    /\ ev = NewEngine.ev
    /\ hist = [lastPause |-> FALSE, held |-> 0, sinceHit |-> INVINCIBLE_TICKS,
               shot |-> [since |-> 0, rate |-> 0],
               taken |-> <<>>, gone |-> {}, left |-> [r \in 1..MaxRooms |-> <<>>]]
    /\ spent = 0

\* What the keyboard and the sticks can hand to update.
Idle == [x |-> 0, y |-> 0]

Moves == {Idle, [x |-> 1, y |-> 0], [x |-> -1, y |-> 0],
          [x |-> 0, y |-> 1], [x |-> 0, y |-> -1]}

NoShot == [on |-> FALSE, x |-> 0, y |-> 0]

\* Date.now() at the start of a run.
Seeds == 1..NumSeeds

\* The outcomes of the Math.random() calls of one operation: the draw of the
\* enemy count of a room, the 5% drop of a kill, the 10% drop of a clear.
\* A draw is enumerated only where the operation can read it: the drop of a
\* kill when there is an enemy to kill, the drop of a clear when the clear
\* check of the tick will fire.
Randoms ==
    LET enemies == \E k \in 1..Len(entities) : entities[k].type = "ENEMY"
        clearDue == /\ currentRoom # 0
                    /\ ~dungeon[currentRoom].cleared
                    /\ dungeon[currentRoom].type # "ITEM"
                    /\ ~enemies
    IN  [count : 0..MaxExtraEnemies,
         drop : IF enemies THEN BOOLEAN ELSE {FALSE},
         clearDrop : IF clearDue THEN BOOLEAN ELSE {FALSE}]

\* engine.update(input), one call of the host loop.
Update(in, seed, rnd) ==
    \E g \in {update(Engine, in, seed, rnd)} :
        LET started == g.ev.started > 0
            count == IF in.restart THEN hist.held + 1 ELSE 0
            base == IF started THEN INVINCIBLE_TICKS ELSE hist.sinceHit
            gap == IF g.ev.ran THEN Min(INVINCIBLE_TICKS, base + 1) ELSE base
            fresh == started \/ g.ev.loads > 0
            crossed == ~fresh /\ g.ev.doorExits > 0 /\ g.ev.exitRoom # 0
            known == crossed /\ g.currentRoom \in hist.gone
            fired == g.ev.fire # <<>>
        IN  /\ g.floorLevel <= MaxFloor
            /\ Commit([g EXCEPT !.ev.prevPause = hist.lastPause,
                                !.ev.afterResume = (ev.op = "resumeGame"),
                                !.ev.heldCount = count,
                                !.ev.hitGap = gap,
                                !.ev.known = known,
                                !.ev.shotSince = hist.shot.since + 1,
                                !.ev.shotRate = hist.shot.rate,
                                !.ev.prior = IF known THEN hist.left[g.currentRoom]
                                             ELSE <<>>])
            /\ hist' = [lastPause |-> in.pause,
                        held |-> IF started THEN 0 ELSE count,
                        sinceHit |-> IF g.ev.hits > 0 THEN 0 ELSE gap,
                        shot |-> IF fired
                                 THEN [since |-> 0, rate |-> g.ev.fire[1].stats.fireRate]
                                 ELSE IF started \/ (g.ev.ran /\ hist.shot.since + 1
                                                                   >= hist.shot.rate)
                                 THEN [since |-> 0, rate |-> 0]
                                 ELSE IF g.ev.ran
                                 THEN [hist.shot EXCEPT !.since = @ + 1]
                                 ELSE hist.shot,
                        taken |-> (IF started THEN <<>> ELSE hist.taken) \o g.ev.groups,
                        gone |-> IF fresh THEN {}
                                 ELSE IF crossed THEN hist.gone \cup {g.ev.exitRoom}
                                 ELSE hist.gone,
                        left |-> IF fresh THEN [r \in 1..MaxRooms |-> <<>>]
                                 ELSE IF crossed
                                 THEN [hist.left EXCEPT ![g.ev.exitRoom] =
                                          SelectSeq(g.ev.exitSet, LAMBDA e :
                                              /\ e.type \in {"ITEM", "PEDESTAL",
                                                              "TRAPDOOR", "OBSTACLE"}
                                              /\ ~e.markedForDeletion)]
                                 ELSE hist.left]

\* App.startGame, offered by the character screen (the engine in MENU) and by
\* the game-over screen: engine.startNewGame(CHARACTERS[selectedCharIndex].id)
StartNewGame(c, seed, rnd) ==
    /\ status \in {"MENU", "GAME_OVER"}
    /\ \E g \in {startNewGame(Began(Engine, "startNewGame"), c, seed, rnd.count)} :
        /\ Commit(g)
        /\ hist' = [hist EXCEPT !.held = 0, !.sinceHit = INVINCIBLE_TICKS,
                                !.shot = [since |-> 0, rate |-> 0],
                                !.taken = <<>>, !.gone = {},
                                !.left = [r \in 1..MaxRooms |-> <<>>]]
        /\ spent' = 0

\* App.resumeGame, offered by the pause screen: engine.resumeGame()
ResumeGame ==
    /\ status = "PAUSED"
    /\ \E g \in {resumeGame(Began(Engine, "resumeGame"))} :
        /\ Commit(g)
        /\ UNCHANGED <<hist, spent>>

\* App.returnToMenu, offered by the pause and game-over screens:
\* engine.status = GameStatus.MENU
ReturnToMenu ==
    /\ status \in {"PAUSED", "GAME_OVER"}
    /\ \E g \in {[Began(Engine, "returnToMenu") EXCEPT !.status = "MENU"]} :
        /\ Commit(g)
        /\ UNCHANGED <<hist, spent>>

\* App.toggleMobilePause while the screen shows PLAYING:
\* engine.status = GameStatus.PAUSED
MobilePause ==
    /\ status = "PLAYING"
    /\ \E g \in {[Began(Engine, "mobilePause") EXCEPT !.status = "PAUSED"]} :
        /\ Commit(g)
        /\ UNCHANGED <<hist, spent>>

CharacterIds == {CHARACTERS[i].id : i \in 1..Len(CHARACTERS)}

\* No drop falls while the player stands.
CalmRandoms == [count : 0..MaxExtraEnemies, drop : {FALSE}, clearDrop : {FALSE}]

(***************************************************************************)
(* Specifications.  Each lets the same operations run and differs in what  *)
(* the host hands them.                                                    *)
(*   Spec      free play: every move and shot, both characters, for        *)
(*             MaxTicks update calls per run;                              *)
(*   SpecHold  the restart key held and released with the player standing, *)
(*             in every status, for any number of calls;                   *)
(*   SpecPause the pause key and the pause, resume and menu buttons during *)
(*             a short run;                                                *)
(*   SpecSiege the player walks on or stands, for any number of calls, so  *)
(*             that a run lasts through whole invincibility windows.       *)
(***************************************************************************)
\* Shots are fired along the row of rooms.
Next ==
    \/ \E in \in [move : Moves,
                  shoot : {NoShot, [on |-> TRUE, x |-> -1, y |-> 0],
                           [on |-> TRUE, x |-> 1, y |-> 0]},
                  restart : {FALSE}, pause : {FALSE}],
          seed \in Seeds, rnd \in Randoms :
          /\ spent < MaxTicks
          /\ Update(in, seed, rnd)
          /\ spent' = IF ev'.started > 0 THEN 0 ELSE spent + 1
    \/ \E c \in CharacterIds, seed \in Seeds, rnd \in CalmRandoms :
          status = "MENU" /\ StartNewGame(c, seed, rnd)

Spec == Init /\ [][Next]_vars

NextHold ==
    \/ \E in \in [move : {Idle}, shoot : {NoShot}, restart : BOOLEAN, pause : {FALSE}],
          seed \in Seeds, rnd \in CalmRandoms :
          Update(in, seed, rnd) /\ spent' = 0
    \/ \E seed \in Seeds, rnd \in CalmRandoms : StartNewGame("alpha", seed, rnd)
    \/ MobilePause

SpecHold == Init /\ [][NextHold]_vars

\* The pause key and the pause, resume and menu buttons, over a run of at
\* most MaxTicks ticks of play.
NextPause ==
    \/ \E in \in [move : {Idle, [x |-> -1, y |-> 0]},
                  shoot : {NoShot, [on |-> TRUE, x |-> 1, y |-> 0]},
                  restart : {FALSE}, pause : BOOLEAN],
          seed \in Seeds, rnd \in CalmRandoms :
          /\ spent < MaxTicks
          /\ Update(in, seed, rnd)
          /\ spent' = IF ev'.ran THEN spent + 1 ELSE spent
    \/ \E c \in CharacterIds, seed \in Seeds, rnd \in CalmRandoms :
          StartNewGame(c, seed, rnd)
    \/ ResumeGame
    \/ ReturnToMenu
    \/ MobilePause

SpecPause == Init /\ [][NextPause]_vars

\* The host as written: GameLoop calls update on the frames that find the
\* engine PLAYING and on no other, with the pause key down or up, while the
\* start, resume, menu and mobile-pause buttons are pressed at any moment
\* their screens offer them, over a run of at most MaxTicks frames of play.
NextHost ==
    \/ \E in \in [move : {Idle, [x |-> -1, y |-> 0]}, shoot : {NoShot},
                  restart : {FALSE}, pause : BOOLEAN],
          seed \in Seeds, rnd \in CalmRandoms :
          /\ status = "PLAYING"
          /\ spent < MaxTicks
          /\ Update(in, seed, rnd)
          /\ spent' = spent + 1
    \/ \E c \in CharacterIds, seed \in Seeds, rnd \in CalmRandoms :
          StartNewGame(c, seed, rnd)
    \/ ResumeGame
    \/ ReturnToMenu
    \/ MobilePause

SpecHost == Init /\ [][NextHost]_vars

\* The player may stand for as long as the run lasts and walks at most
\* MaxSteps times in it.
\* Run seed 2 is played besides those of Seeds: the three
\* chasers of its enemy room crowd the player in a corner.
NextSiege ==
    \/ \E in \in [move : {Idle, [x |-> -1, y |-> 0], [x |-> 1, y |-> 0]},
                  shoot : {NoShot}, restart : {FALSE}, pause : {FALSE}],
          seed \in Seeds \cup {2}, rnd \in CalmRandoms :
          /\ in.move = Idle \/ spent < MaxSteps
          /\ Update(in, seed, rnd)
          /\ spent' = IF in.move = Idle THEN spent ELSE spent + 1
    \/ \E c \in CharacterIds, seed \in Seeds \cup {2}, rnd \in CalmRandoms :
          StartNewGame(c, seed, rnd)

SpecSiege == Init /\ [][NextSiege]_vars

(***************************************************************************)
(* SpecHunt: a run played through.  The player shoots left on every call;  *)
(* while an enemy is in the live set the player stands, otherwise walks    *)
(* left.  MaxWalk times a run the player does something else: sidesteps up *)
(* or down during a fight when the next shot is at most two calls away, or *)
(* walks any way in a boss room without enemy (around the trapdoor, or     *)
(* back out of the room).  The run seed is 11, whose floor has its         *)
(* enemy room and its boss room to the left of the start room.  The 5%     *)
(* heart drop of a kill does not fall here; the 10% drop of a clear may.   *)
(* A run that ends in GAME_OVER is followed by a new game.                 *)
(***************************************************************************)
Fighting == \E k \in 1..Len(entities) : entities[k].type = "ENEMY"

HuntMoves ==
    IF Fighting
    THEN IF player.cooldown <= 2 THEN {Idle, [x |-> 0, y |-> 1], [x |-> 0, y |-> -1]}
         ELSE {Idle}
    ELSE IF currentRoom # 0 /\ dungeon[currentRoom].type = "BOSS"
    THEN Moves \ {Idle}
    ELSE {[x |-> -1, y |-> 0]}

\* The move that costs nothing of the budget.
HuntPlan == IF Fighting THEN Idle ELSE [x |-> -1, y |-> 0]

NextHunt ==
    \/ \E in \in [move : HuntMoves, shoot : {[on |-> TRUE, x |-> -1, y |-> 0]},
                  restart : {FALSE}, pause : {FALSE}],
          seed \in {11}, rnd \in {r \in Randoms : ~r.drop} :
          /\ status = "PLAYING"
          /\ in.move = HuntPlan \/ spent < MaxWalk
          /\ Update(in, seed, rnd)
          /\ spent' = IF in.move = HuntPlan THEN spent ELSE spent + 1
    \/ \E seed \in {11}, rnd \in CalmRandoms : StartNewGame("alpha", seed, rnd)

SpecHunt == Init /\ [][NextHunt]_vars

(***************************************************************************)
(* SpecItems: collectItem called on items of every table entry of a        *)
(* bounded set (./config/items is not part of the sources read): a maxHp   *)
(* delta, an hp delta and a fire-rate multiplier in percent, and hearts of *)
(* several sizes, MaxItems collections a run, for both characters and for  *)
(* a character id no table entry has; collectItem called on an item whose  *)
(* type the table ITEMS as modelled does not hold; and spawnItem called    *)
(* with the item table as modelled and with an empty one.                  *)
(***************************************************************************)
ItemConfigs ==
    {[type |-> "STAT_ITEM", weight |-> 1,
      stats |-> [NoMods EXCEPT !.maxHp = m, !.hp = h, !.fireRate = f]] :
        m \in {-2, -1, 0, 1}, h \in {0, 1, 2}, f \in {-100, 0, 10, 50, 150}}
    \cup {[type |-> "HEART_PICKUP", weight |-> 1, stats |-> [NoMods EXCEPT !.hp = h]] :
            h \in {0, 1, 2}}

\* engine.collectItem(item) for an item of the given type lying on the
\* player, table being the table the type is looked up in.
CollectItem(type, table) ==
    /\ status = "PLAYING"
    /\ spent < MaxItems
    /\ \E g \in {collected(Began(Engine, "collectItem"),
                            [Entity(uuid(Engine), "ITEM", player.x, player.y,
                                    ITEM_SIZE, ITEM_SIZE)
                             EXCEPT !.itemType = type],
                            FindBy(table, "type", type))} :
          /\ Commit(g)
          /\ UNCHANGED hist
          /\ spent' = spent + 1

\* engine.spawnItem(x, y, seed) in the middle of the room, with the table
\* ITEMS as given.
SpawnItem(items, seed) ==
    /\ status = "PLAYING"
    /\ spent < MaxItems
    /\ \E g \in {spawnItemFrom(items, Began(Engine, "spawnItem"), CANVAS_WIDTH \div 2,
                                CANVAS_HEIGHT \div 2, seed, "")} :
          /\ Commit(g)
          /\ UNCHANGED hist
          /\ spent' = spent + 1

NextItems ==
    \/ \E c \in CharacterIds \cup {"gamma"}, seed \in Seeds, rnd \in CalmRandoms :
          status = "MENU" /\ StartNewGame(c, seed, rnd)
    \/ \E config \in ItemConfigs : CollectItem(config.type, <<config>>)
    \/ CollectItem("MYSTERY", ITEMS)
    \/ \E items \in {<<>>, ITEMS}, seed \in {3, 4} : SpawnItem(items, seed)

SpecItems == Init /\ [][NextItems]_vars

(***************************************************************************)
(* SpecStats: collectItem called on items that carry a delta of one stat,  *)
(* of each of the ten stats in turn, on an item that carries them all, on  *)
(* a heart and on an item the table does not hold, MaxItems collections a  *)
(* run, for both characters.  Multipliers are in percent.                  *)
(***************************************************************************)
NextStats ==
    \/ \E c \in CharacterIds, seed \in Seeds, rnd \in CalmRandoms :
          status = "MENU" /\ StartNewGame(c, seed, rnd)
    \/ \E stat \in {"damage", "range", "knockback", "fireRate"}, v \in {50, 150} :
          CollectItem("STAT_ITEM", <<[type |-> "STAT_ITEM", weight |-> 1,
                                     stats |-> [NoMods EXCEPT ![stat] = v]]>>)
    \/ \E stat \in {"maxHp", "hp", "speed", "shotSpeed", "bulletScale", "shotSpread"},
          v \in {-1, 2} :
          CollectItem("STAT_ITEM", <<[type |-> "STAT_ITEM", weight |-> 1,
                                     stats |-> [NoMods EXCEPT ![stat] = v]]>>)
    \/ CollectItem("STAT_ITEM",
                   <<[type |-> "STAT_ITEM", weight |-> 1,
                      stats |-> [maxHp |-> 1, hp |-> 1, damage |-> 150, speed |-> 2,
                                 fireRate |-> 150, shotSpeed |-> 2, range |-> 50,
                                 bulletScale |-> 2, knockback |-> 150, shotSpread |-> 3]]>>)
    \/ CollectItem("HEART_PICKUP", DROPS)
    \/ CollectItem("MYSTERY", ITEMS)

SpecStats == Init /\ [][NextStats]_vars

(***************************************************************************)
(* SpecRange: the player stands in the start room and shoots left or       *)
(* diagonally (a stick pushed into a corner), after items that halve the   *)
(* range or add half a tile to the shot speed, so that projectiles of      *)
(* several budgets and strides fly together.                               *)
(***************************************************************************)
NextRange ==
    \/ \E in \in [move : {Idle},
                  shoot : {NoShot, [on |-> TRUE, x |-> -1, y |-> 0],
                           [on |-> TRUE, x |-> -1, y |-> -1]},
                  restart : {FALSE}, pause : {FALSE}],
          seed \in Seeds, rnd \in CalmRandoms :
          status = "PLAYING" /\ Update(in, seed, rnd) /\ spent' = spent
    \/ \E seed \in Seeds, rnd \in CalmRandoms :
          status = "MENU" /\ StartNewGame("alpha", seed, rnd)
    \/ \E mods \in {[NoMods EXCEPT !.range = 50], [NoMods EXCEPT !.shotSpeed = 24]} :
          CollectItem("STAT_ITEM", <<[type |-> "STAT_ITEM", weight |-> 1, stats |-> mods]>>)

SpecRange == Init /\ [][NextRange]_vars

(***************************************************************************)
(* SpecSpawn: enterRoom(room, inputDir) called on the rooms of the first   *)
(* floor, several times a room, from every direction and from none, with   *)
(* each of the three values Math.floor(Math.random() * 3) can take.        *)
(***************************************************************************)
\* engine.enterRoom(room, inputDir) for the room ri of the dungeon.
EnterRoom(ri, inputDir, n) ==
    /\ status = "PLAYING"
    /\ spent < MaxCalls
    /\ ri \in 1..Len(dungeon)
    /\ \E g \in {enterRoom(Began(Engine, "enterRoom"), ri, inputDir, n)} :
          /\ Commit(g)
          /\ UNCHANGED hist
          /\ spent' = spent + 1

NextSpawn ==
    \/ \E c \in CharacterIds, seed \in Seeds, rnd \in CalmRandoms :
          status = "MENU" /\ StartNewGame(c, seed, rnd)
    \/ \E ri \in 1..MaxRooms, inputDir \in Directions \cup {"NONE"}, n \in 0..2 :
          EnterRoom(ri, inputDir, n)

SpecSpawn == Init /\ [][NextSpawn]_vars

(***************************************************************************)
(* SpecCount: calculateRoomCount(level) called for the levels up to        *)
(* MaxFloor + 1 on an engine whose run seed is any state of the generator. *)
(***************************************************************************)
\* engine.baseSeed = seed; engine.calculateRoomCount(level)
CalculateRoomCount(seed, level) ==
    /\ status = "PLAYING"
    /\ spent < MaxCalls
    /\ \E g \in {[Began(Engine, "calculateRoomCount") EXCEPT !.baseSeed = seed]} :
          /\ Commit([g EXCEPT !.ev.roomCount =
                        <<[seed |-> seed, level |-> level,
                           count |-> calculateRoomCount(g, level)]>>])
          /\ UNCHANGED hist
          /\ spent' = spent + 1

NextCount ==
    \/ \E c \in CharacterIds, seed \in Seeds, rnd \in CalmRandoms :
          status = "MENU" /\ StartNewGame(c, seed, rnd)
    \/ \E seed \in 0..(RNG_MOD - 1), level \in 1..(MaxFloor + 1) :
          CalculateRoomCount(seed, level)

SpecCount == Init /\ [][NextCount]_vars

(***************************************************************************)
(* SpecRoomless: a new engine starts a game on a floor that generateDungeon *)
(* returns without a START room (./dungeon is not part of the sources      *)
(* read), so that the game is PLAYING with currentRoom null; update is     *)
(* then called with any move and restart held or not.  After a forced      *)
(* restart, which finds a START room, the player stands.                   *)
(***************************************************************************)
\* engine.startNewGame(c) on an engine that never had a room, the generator
\* returning the floor without its START room.
StartRoomless(c, seed) ==
    /\ status = "MENU" /\ currentRoom = 0
    /\ \E g \in {[loadFloorWith(
                      [Began(Engine, "startNewGame")
                         EXCEPT !.characterId = c, !.floorLevel = 1, !.score = 0,
                                !.baseSeed = seed, !.player = createPlayer(c)],
                      1, 5,
                      SelectSeq(generateDungeon(1, seed + 1000, 5),
                                LAMBDA r : r.type # "START"),
                      0)
                  EXCEPT !.status = "PLAYING", !.restartTimer = 0]} :
          /\ Commit(g)
          /\ hist' = [hist EXCEPT !.held = 0, !.sinceHit = INVINCIBLE_TICKS,
                                  !.shot = [since |-> 0, rate |-> 0]]
          /\ spent' = 0

NextRoomless ==
    \/ \E in \in [move : IF currentRoom = 0 THEN Moves ELSE {Idle}, shoot : {NoShot},
                  restart : BOOLEAN, pause : {FALSE}],
          seed \in Seeds, rnd \in CalmRandoms :
          Update(in, seed, rnd) /\ spent' = 0
    \/ \E c \in CharacterIds, seed \in Seeds : StartRoomless(c, seed)

SpecRoomless == Init /\ [][NextRoomless]_vars

(***************************************************************************)
(* SpecVolley: the run of SpecHunt played without sidesteps by either      *)
(* character, who at any moment may pick up an item that sets shotSpread   *)
(* to 3 or to 4, so that fans of projectiles are shot at the enemies that  *)
(* come close.                                                             *)
(***************************************************************************)
NextVolley ==
    \/ \E in \in [move : {HuntPlan}, shoot : {[on |-> TRUE, x |-> -1, y |-> 0]},
                  restart : {FALSE}, pause : {FALSE}],
          seed \in {11}, rnd \in {r \in Randoms : ~r.drop} :
          status = "PLAYING" /\ Update(in, seed, rnd) /\ spent' = spent
    \/ \E c \in CharacterIds, seed \in {11}, rnd \in CalmRandoms :
          StartNewGame(c, seed, rnd)
    \/ \E n \in {3, 4} :
          CollectItem("STAT_ITEM", <<[type |-> "STAT_ITEM", weight |-> 1,
                                      stats |-> [NoMods EXCEPT !.shotSpread = n]]>>)

SpecVolley == Init /\ [][NextVolley]_vars

(***************************************************************************)
(* SpecWalls: resolveWallCollision(ent) called in the rooms of the first   *)
(* floor, entered without direction, on an entity that is not part of the  *)
(* live set: a player, a ground enemy or a flying enemy, 32 wide and high, *)
(* placed next to the walls, the doors and the rock, on the rock or in the *)
(* wall, with a velocity of a tile or none on either axis.  The run seed   *)
(* is 2, whose first floor has a rock in its normal room.                  *)
(***************************************************************************)
\* engine.resolveWallCollision(ent).  The log notes the layout, the entity
\* handed in and the entity as the call leaves it.
ResolveWallCollision(kind, x, y, vx, vy) ==
    /\ status = "PLAYING"
    /\ currentRoom # 0
    /\ LET ent == [Entity(0, IF kind = "PLAYER" THEN "PLAYER" ELSE "ENEMY",
                          x, y, PLAYER_SIZE, PLAYER_SIZE)
                   EXCEPT !.vx = vx, !.vy = vy, !.flying = (kind = "FLYING")]
       IN  \E g \in {[Began(Engine, "resolveWallCollision") EXCEPT
                         !.ev.wall = <<[layout |-> CurrentLayout(Engine),
                                        before |-> ent,
                                        after |-> resolveWallCollision(
                                                      CurrentLayout(Engine), ent)]>>]} :
              /\ Commit(g)
              /\ UNCHANGED <<hist, spent>>

NextWalls ==
    \/ \E seed \in {2}, rnd \in CalmRandoms :
          status = "MENU" /\ StartNewGame("alpha", seed, rnd)
    \/ \E ri \in 1..MaxRooms : EnterRoom(ri, "NONE", 0)
    \/ \E kind \in {"PLAYER", "GROUND", "FLYING"},
          x \in {52, 100, 340, 388}, y \in {32, 80},
          vx \in {-48, 0, 48}, vy \in {-48, 0, 48} :
          ResolveWallCollision(kind, x, y, vx, vy)

SpecWalls == Init /\ [][NextWalls]_vars

(***************************************************************************)
(* SpecFoes: one enemy and a player who does not shoot.  Either the boss   *)
(* room of the first floor of run seed 11 is entered, from the left or the *)
(* right, and the player walks any way for the first MaxSteps calls of     *)
(* update and stands from then on; or a dasher is put into the room the    *)
(* player is in, as spawnEnemiesForRoom does on a deeper floor, with the   *)
(* speed of the table or four times that, and the player stands.  The run  *)
(* lasts as long as the player does; SpecFoesFair adds that the host keeps *)
(* calling update (requestAnimationFrame calls the loop for every frame).  *)
(***************************************************************************)
\* The construction and push of lines 264-290 of spawnEnemiesForRoom for a
\* dasher of the given speed placed at (x, y).
SpawnFoe(speed, x, y) ==
    /\ status = "PLAYING"
    /\ currentRoom # 0
    /\ ~Fighting
    /\ spent = 0
    /\ \E g \in {Began(Engine, "spawnEnemiesForRoom")} :
          Commit(Push(g, Enemy(uuid(g),
                               [FindBy(ENEMIES, "type", "DASHER")[1]
                                   EXCEPT !.speed = speed],
                               x, y, g.floorLevel, 0)))
    /\ UNCHANGED hist
    /\ spent' = 1

\* GameLoop: one frame of the host while an enemy is in the room.  The
\* frames are counted up to MaxSteps and by their parity from then on.
FoeTick ==
    \E in \in [move : Moves, shoot : {NoShot}, restart : {FALSE}, pause : {FALSE}],
       rnd \in CalmRandoms :
       /\ Fighting
       /\ \/ in.move = Idle
          \/ /\ spent < MaxSteps
             /\ \E k \in 1..Len(entities) : entities[k].enemyType = "BOSS"
       /\ Update(in, 11, rnd)
       /\ spent' = IF spent < MaxSteps THEN spent + 1
                   ELSE 2 * MaxSteps + 1 - spent

NextFoes ==
    \/ \E rnd \in CalmRandoms : StartNewGame("alpha", 11, rnd)
    \/ \E ri \in 1..MaxRooms, inputDir \in {"LEFT", "RIGHT"} :
          /\ ~Fighting
          /\ spent = 0
          /\ ri \in 1..Len(dungeon)
          /\ dungeon[ri].type = "BOSS"
          /\ EnterRoom(ri, inputDir, 0)
    \/ \E speed \in {12, 48}, x \in {100, 292}, y \in {56, 104} : SpawnFoe(speed, x, y)
    \/ FoeTick

SpecFoes == Init /\ [][NextFoes]_vars

\* Weak fairness of FoeTick, WF_vars(FoeTick), with its enabling condition
\* written out: update takes any input in any state and every FoeTick step
\* changes the frame count, so the step is possible exactly while an enemy
\* is in the room.
SpecFoesFair == SpecFoes /\ ([]<>~Fighting \/ []<><<FoeTick>>_vars)

(***************************************************************************)
(* Properties.                                                             *)
(***************************************************************************)
\* C1: pause is edge-triggered.  A call of update flips the status between
\* PLAYING and PAUSED only when its pause intent is set and the call before
\* it had it clear, so a held key toggles once, on the first call of the
\* press; after every call the latch pauseLocked equals the pause intent of
\* that call, and nothing but a call of update with pause clear releases it.
C1_PauseEdgeTriggered ==
    [][ /\ ev'.op = "update" =>
              /\ pauseLocked' = ev'.pause
              /\ ev'.toggled => (ev'.pause /\ ~hist.lastPause /\ ~pauseLocked)
              /\ ((status = "PLAYING" /\ status' = "PAUSED")
                     \/ (status = "PAUSED" /\ status' # "PAUSED"))
                   => (ev'.toggled /\ ~hist.lastPause)
        /\ (pauseLocked /\ ~pauseLocked') => (ev'.op = "update" /\ ~ev'.pause)
        /\ ev'.op \notin {"update"} => pauseLocked' = pauseLocked
      ]_vars

\* C1 witness: the second call of a held pause key found the engine paused
\* by the first and left it paused.
C1_HeldKeyWitness ==
    /\ ev.op = "update" /\ ev.pause /\ ev.prevPause /\ ~ev.toggled
    /\ ev.statusBefore = "PAUSED" /\ status = "PAUSED" /\ pauseLocked

\* C2: a call of update that begins PAUSED with restart clear and does not
\* toggle the pause leaves player, entities, score, floor level, seed,
\* dungeon and current room as they were and calls the UI callback once.
C2_PausedFrozen ==
    [][ (/\ ev'.op = "update" /\ status = "PAUSED"
         /\ ~ev'.restart /\ ~ev'.toggled)
        => (UNCHANGED <<player, entities, score, floorLevel, baseSeed, dungeon,
                        currentRoom>> /\ ev'.ui = 1 /\ status' = "PAUSED") ]_vars

\* C2 witness: such a call with a projectile in flight and the player in a
\* cooldown.
C2_FrozenWitness ==
    /\ ev.op = "update" /\ ev.statusBefore = "PAUSED" /\ status = "PAUSED"
    /\ ~ev.restart /\ ~ev.toggled /\ ev.ui = 1
    /\ \E k \in 1..Len(entities) : entities[k].type = "PROJECTILE"
    /\ player.cooldown > 0

\* C3: the restart hold.  restartTimer counts the calls of update with
\* restart set since the last call with it clear and since the run began; a
\* call starts a new game exactly when it is the 61st of them; a call with
\* restart clear leaves the counter 0, the forced restart leaves it 0, and
\* between calls it is within 0..60.
C3_RestartHold ==
    /\ restartTimer \in 0..RESTART_HOLD
    /\ restartTimer = hist.held
    /\ ev.op = "update" =>
          /\ (ev.started > 0) <=> (ev.heldCount = RESTART_HOLD + 1)
          /\ ev.started <= 1
          /\ ~ev.restart => restartTimer = 0
          /\ ev.started > 0 => restartTimer = 0

\* C3 witness: the 61st call of a hold in a running game started a new one.
C3_ForcedRestartWitness ==
    /\ ev.op = "update" /\ ev.started = 1 /\ ev.heldCount = RESTART_HOLD + 1
    /\ ev.statusBefore = "PLAYING" /\ status = "PLAYING" /\ restartTimer = 0

\* C4: the restart hold forces a restart from PLAYING only; a call of
\* update that begins in another status starts no new game.
C4_RestartOnlyWhilePlaying ==
    (ev.op = "update" /\ ev.started > 0) => ev.statusBefore = "PLAYING"

\* C5: a call of update in which damage brings hp to 0 or below ends with
\* the status GAME_OVER; hp is reduced at most once in a call; the status
\* becomes GAME_OVER only from PLAYING and by such a hit; once GAME_OVER, a
\* call of update changes nothing of the simulation and the status stays
\* GAME_OVER until startNewGame runs.
C5_DeathEndsRun ==
    [][ /\ ev'.op = "update" =>
              /\ ev'.hits <= 1
              /\ (ev'.hits > 0 /\ player'.stats.hp <= 0) => status' = "GAME_OVER"
        /\ (status # "GAME_OVER" /\ status' = "GAME_OVER")
              => (/\ ev'.op = "update" /\ status = "PLAYING"
                  /\ ev'.hits = 1 /\ player'.stats.hp <= 0)
        /\ (status = "GAME_OVER" /\ ev'.op = "update" /\ ev'.started = 0)
              => (UNCHANGED <<player, entities, score, floorLevel, baseSeed, dungeon,
                        currentRoom>> /\ status' = "GAME_OVER" /\ ~ev'.ran)
        /\ (status = "GAME_OVER" /\ status' # "GAME_OVER")
              => (ev'.op = "startNewGame" /\ status' = "PLAYING")
      ]_vars

\* C5 witness: a call of update that began PLAYING reduced hp to 0 with one
\* hit while a second enemy touched the player, and ended GAME_OVER.
C5_DeathWitness ==
    /\ ev.op = "update" /\ ev.statusBefore = "PLAYING" /\ status = "GAME_OVER"
    /\ ev.hits = 1 /\ ev.blocked /\ player.stats.hp <= 0

\* C6: a call of damagePlayer made while invincibleTimer > 0 changes neither
\* hp nor knockback; a reduction of hp comes at least 60 PLAYING ticks after
\* the one before it in the run; invincibleTimer is within 0..60.
C6_InvincibilityWindow ==
    /\ player.invincibleTimer \in 0..INVINCIBLE_TICKS
    /\ ~ev.blockedChanged
    /\ ev.hits > 0 => ev.hitGap >= INVINCIBLE_TICKS

\* C6 witness: the second reduction of hp of a run, a full window after the
\* first.
C6_SecondHitWitness ==
    /\ ev.op = "update" /\ ev.hits = 1 /\ characterId = "alpha"
    /\ player.stats.hp = 0 /\ player.invincibleTimer = INVINCIBLE_TICKS

\* C7: carveDoors is applied to the layout of a room only while the room is
\* cleared, the door tiles of a room that is not cleared are walls, and
\* checkDoorCollisions moves the player out of a room only while that room
\* is cleared.
C7_DoorsOnlyWhenCleared ==
    /\ ~ev.carveUncleared
    /\ ~ev.doorExitUncleared
    /\ \A r \in 1..Len(dungeon) : DoorsCarved(dungeon[r]) => dungeon[r].cleared

\* C7 witness: the player went through a door into a room not yet cleared,
\* whose doors are shut.
C7_DoorExitWitness ==
    /\ ev.doorExits > 0 /\ currentRoom # 0
    /\ ~dungeon[currentRoom].cleared /\ ~DoorsCarved(dungeon[currentRoom])
    /\ \E r \in 1..Len(dungeon) : dungeon[r].cleared /\ DoorsCarved(dungeon[r])

\* C8: within a floor the cleared flag of a room is never set back: no
\* operation that keeps the floor turns a cleared room into an uncleared one.
C8_ClearedMonotonic ==
    [][ (ev'.loads = 0 /\ Len(dungeon') = Len(dungeon))
        => \A r \in 1..Len(dungeon) : dungeon[r].cleared => dungeon'[r].cleared
      ]_vars

\* C8 witness: the player came back through a door into the start room,
\* cleared before they left it, and it is still cleared.
C8_ReentryWitness ==
    /\ ev.doorExits > 0 /\ currentRoom # 0
    /\ dungeon[currentRoom].type = "START" /\ dungeon[currentRoom].cleared

\* C9: a tick that finds the current room uncleared with no enemy in the
\* live set marks it cleared, whatever the type of the room, and no room is
\* marked cleared while a live enemy is in it.
C9_ClearedWhenEmpty ==
    /\ ev.evalEmpty => ev.evalCleared
    /\ ~ev.clearedWithEnemy

\* C10: when enterRoom returns with no enemy in the live set, the room
\* entered is cleared and its doors are carved.
C10_EnterRoomRecheck ==
    ~ev.enterEmptyLocked

\* C11: in a tick of a normal room in which a kill leaves no live enemy in
\* the live set, the room is cleared (and so carved open) when update returns.
C11_ClearedInKillTick ==
    (ev.op = "update" /\ ev.ran /\ ev.lastKill /\ ev.doorExits = 0 /\ ev.loads = 0
        /\ currentRoom # 0 /\ dungeon[currentRoom].type = "NORMAL")
    => dungeon[currentRoom].cleared

C13_ChoiceGroupExclusive ==
    /\ (ev.op = "update" /\ ev.ran)
       => \A n \in 1..Len(ev.groups) : \A k \in 1..Len(entities) :
             ~(entities[k].type = "ITEM" /\ entities[k].choiceGroupId = ev.groups[n])
    /\ \A m, n \in 1..Len(hist.taken) : m # n => hist.taken[m] # hist.taken[n]

\* A tick that collected one of the two rewards of a boss room, marked the
\* other, and left the room with its pedestals and no reward.
C13_RewardTakenWitness ==
    /\ ev.op = "update" /\ ev.ran /\ Len(ev.groups) = 1 /\ ev.siblings = 1
    /\ hist.taken = ev.groups
    /\ Len(player.inventory) = 1
    /\ CountType(entities, "PEDESTAL") = 2
    /\ CountType(entities, "ITEM") = 0

\* C14: the clear of a boss room pushes exactly one trapdoor, centred on the
\* room centre, and exactly two items of a choice group, both of the same
\* group, centred 80 left and 80 right of the room centre; and whatever rooms
\* are left and re-entered, the live set holds at most one trapdoor and at
\* most two items of a choice group.
C14_BossRewards ==
    LET Centre(e) == [x |-> e.x + e.w \div 2, y |-> e.y + e.h \div 2]
        cx == CANVAS_WIDTH \div 2
        cy == CANVAS_HEIGHT \div 2
        trapdoors == {k \in 1..Len(ev.rewards) : ev.rewards[k].type = "TRAPDOOR"}
        grouped == {k \in 1..Len(ev.rewards) :
                        ev.rewards[k].type = "ITEM" /\ ev.rewards[k].choiceGroupId # ""}
    IN  /\ ev.bossClears <= 1
        /\ ev.bossClears = 1 =>
              /\ Cardinality(trapdoors) = 1
              /\ \A k \in trapdoors : Centre(ev.rewards[k]) = [x |-> cx, y |-> cy]
              /\ Cardinality(grouped) = 2
              /\ \A m, n \in grouped :
                    ev.rewards[m].choiceGroupId = ev.rewards[n].choiceGroupId
              /\ {Centre(ev.rewards[k]) : k \in grouped}
                    = {[x |-> cx - BOSS_REWARD_OFFSET, y |-> cy],
                       [x |-> cx + BOSS_REWARD_OFFSET, y |-> cy]}
        /\ CountType(entities, "TRAPDOOR") <= 1
        /\ Cardinality({k \in 1..Len(entities) :
                entities[k].type = "ITEM" /\ entities[k].choiceGroupId # ""}) <= 2

\* The boss room entered again after its clear: its trapdoor is back, alone.
C14_BossRoomReentryWitness ==
    /\ ev.op = "update" /\ ev.doorExits > 0
    /\ currentRoom # 0 /\ dungeon[currentRoom].type = "BOSS"
    /\ dungeon[currentRoom].cleared
    /\ CountType(entities, "TRAPDOOR") = 1
    /\ CountType(entities, "PEDESTAL") = 2

\* C15: the player's hp never exceeds maxHp, after any collection of an item
\* or a heart and in every other state of a run.
C15_HpWithinMaxHp ==
    player.stats.hp <= player.stats.maxHp

\* The two-hp character after an item of hp delta 2 and no maxHp delta: the
\* cap at maxHp 3 has cut the sum.
C15_CappedWitness ==
    /\ ev.op = "collectItem" /\ ev.mods.hp = 2 /\ ev.mods.maxHp = 0
    /\ characterId = "alpha" /\ Len(player.inventory) = 1
    /\ player.stats.hp = 3 /\ player.stats.maxHp = 3

\* C16: after the stat deltas of any item are applied, a negative maxHp delta
\* included, the player's maxHp is at least 1.
C16_MaxHpAtLeastOne ==
    ev.op = "collectItem" => player.stats.maxHp >= 1

\* C17: after an item with a fire-rate multiplier is applied, the player's
\* fireRate is at least MIN_FIRE_RATE, whatever the multiplier and however
\* many such items came before.
C17_FireRateFloor ==
    (ev.op = "collectItem" /\ ev.mods.fireRate # 0)
    => player.stats.fireRate >= MIN_FIRE_RATE

\* The third item with a multiplier below one: the floor holds the fireRate.
C17_StackedWitness ==
    /\ ev.op = "collectItem" /\ ev.mods.fireRate = 50
    /\ Len(player.inventory) = 3
    /\ player.stats.fireRate = MIN_FIRE_RATE

\* C18: a projectile of budget B and stride d > 0 that runs out of budget is
\* marked on its update number ceil(B / d), having flown a Manhattan distance
\* of at least B and less than B + d; and no projectile left in the live set
\* by a tick has used up its budget.
C18_ProjectileBudget ==
    /\ \A e \in ev.expired :
          e.stride > 0 =>
            /\ (e.age - 1) * e.stride < e.budget /\ e.budget <= e.age * e.stride
            /\ e.flown = e.age * e.stride
            /\ e.budget <= e.flown /\ e.flown < e.budget + e.stride
    /\ \A k \in 1..Len(entities) :
          LET p == entities[k]
              stride == Abs(p.vx) + Abs(p.vy)
          IN  (p.type = "PROJECTILE" /\ stride > 0)
              => /\ p.age * stride < p.budget
                 /\ Abs(p.x - p.ox) + Abs(p.y - p.oy) = p.age * stride

\* A projectile that ran out on its second update or later, its last stride
\* overshooting its budget.
C18_OvershootWitness ==
    \E e \in ev.expired : e.age >= 2 /\ e.flown > e.budget

\* C19: a room entered through a door after it was left earlier on the same
\* floor gets as its live set exactly the items, pedestals, trapdoors and
\* obstacles that were live and unmarked when it was last left, with their
\* ids, and so no enemy, no projectile and nothing generated anew.
C19_RoomRoundTrip ==
    (ev.op = "update" /\ ev.known)
    => /\ ev.enterSet = ev.prior
       /\ \A k \in 1..Len(ev.enterSet) :
             ev.enterSet[k].type \notin {"ENEMY", "PROJECTILE"}

\* The boss room entered again: it was left with its trapdoor, its pedestals
\* and a reward that was not taken.
C19_BossRoomRestoredWitness ==
    /\ ev.op = "update" /\ ev.known
    /\ currentRoom # 0 /\ dungeon[currentRoom].type = "BOSS"
    /\ Len(ev.prior) >= 4
    /\ \E k \in 1..Len(ev.prior) : ev.prior[k].type = "ITEM"

\* C20: startNewGame returns with status PLAYING, floorLevel 1, score 0 and
\* restartTimer 0, the player as createPlayer builds it from the character's
\* template (its stats, an empty inventory, cooldown 0, invincibleTimer 0),
\* the START room as the current room, and an empty live set, whatever the
\* status and the state it was called in.
C20_StartNewGamePost ==
    ev.started > 0 =>
        /\ Len(ev.post) = 1
        /\ ev.post[1].status = "PLAYING"
        /\ ev.post[1].floorLevel = 1
        /\ ev.post[1].score = 0
        /\ ev.post[1].restartTimer = 0
        /\ ev.post[1].player = createPlayer(ev.post[1].characterId)
        /\ \E i \in 1..Len(CHARACTERS) :
              ev.post[1].player.stats = CHARACTERS[i].baseStats
        /\ ev.post[1].player.inventory = <<>>
        /\ ev.post[1].player.cooldown = 0
        /\ ev.post[1].player.invincibleTimer = 0
        /\ ev.post[1].room = "START"
        /\ ev.post[1].live = <<>>

\* A new game started from the game-over screen of a run that had scored,
\* with entities left in the live set.
C20_AfterGameOverWitness ==
    /\ ev.op = "startNewGame" /\ ev.statusBefore = "GAME_OVER"
    /\ ev.started = 1
    /\ ev.post[1].scoreBefore > 0
    /\ ev.post[1].liveBefore > 0
    /\ status = "PLAYING" /\ score = 0 /\ entities = <<>>

\* C21: a call of update whose status after the pause and restart handling
\* is PLAYING or PAUSED calls the UI callback exactly once, and the snapshot
\* it hands over is that of the engine as the call leaves it (the callback
\* is the last effect); a call whose status is then MENU, CHARACTER_SELECT
\* or GAME_OVER does not call it.  So also when the player dies, a door is
\* crossed or the floor advances in the call.
C21_UiCallbackOnce ==
    ev.op = "update" =>
        /\ ev.gate \in {"PLAYING", "PAUSED"} =>
              /\ ev.ui = 1
              /\ ev.shown = <<getUiState(Engine)>>
        /\ ev.gate \notin {"PLAYING", "PAUSED"} => (ev.ui = 0 /\ ev.shown = <<>>)

\* C21 witness: the tick in which the player died called the callback once,
\* with the hp of the dead player.
C21_DeathTickWitness ==
    /\ ev.op = "update" /\ ev.gate = "PLAYING" /\ status = "GAME_OVER"
    /\ ev.ui = 1 /\ Len(ev.shown) = 1 /\ ev.shown[1].hp <= 0

\* C22: every snapshot handed to the UI callback carries the restart-hold
\* counter as restartTimer, equal to the number of consecutive calls of
\* update that held restart.
C22_SnapshotHasRestartTimer ==
    \A k \in 1..Len(ev.shown) :
        /\ "restartTimer" \in DOMAIN ev.shown[k]
        /\ ev.shown[k].restartTimer = hist.held

\* C23: seed determinism of enemy generation.  Two entries in a row into a
\* normal room with the same room seed, floor level, tile layout and player
\* position spawn the same enemies: as many, of the same types, at the same
\* positions.
C23_SpawnDeterminism ==
    [][ (/\ ev.op = "enterRoom" /\ ev'.op = "enterRoom"
         /\ ev.spawnKey # <<>> /\ ev'.spawnKey = ev.spawnKey
         /\ ev.spawnKey[1].type = "NORMAL")
        => LET before == SelectSeq(entities, LAMBDA e : e.type = "ENEMY")
               after == SelectSeq(entities', LAMBDA e : e.type = "ENEMY")
           IN  /\ Len(after) = Len(before)
               /\ \A k \in 1..Len(after) :
                     /\ after[k].enemyType = before[k].enemyType
                     /\ after[k].x = before[k].x
                     /\ after[k].y = before[k].y ]_vars

\* C24: the target room count is a function of the run seed and the level
\* only.  It is 5 for level 1 for every seed; for a further level it is the
\* count c of the level before grown to between floor(1.2 c) and
\* floor(1.6 c), so it is strictly greater; and it is the count a new engine
\* with the same run seed computes for that level.
C24_RoomCount ==
    \A k \in 1..Len(ev.roomCount) :
        LET r == ev.roomCount[k]
            before == calculateRoomCount([NewEngine EXCEPT !.baseSeed = r.seed],
                                         r.level - 1)
        IN  /\ r.level = 1 => r.count = 5
            /\ r.level > 1 =>
                  /\ r.count > before
                  /\ r.count >= (before * 120) \div 100
                  /\ r.count <= (before * 160) \div 100
            /\ r.count = calculateRoomCount([NewEngine EXCEPT !.baseSeed = r.seed],
                                            r.level)

\* C24 witness: the count of a third level, after two growth steps, computed
\* on an engine in the middle of a run of another seed.
C24_ThirdLevelWitness ==
    /\ ev.op = "calculateRoomCount" /\ Len(ev.roomCount) = 1
    /\ ev.roomCount[1].level = 3 /\ ev.roomCount[1].count >= 8
    /\ ev.roomCount[1].seed # 1 /\ spent = MaxCalls

\* C25: door crossing.  A call of update makes at most one door transition.
\* A transition goes through a door whose flag is set in the room left, to
\* the room of the dungeon one grid step away in the triggered direction,
\* which is then the current room, and the player stands at the edge
\* opposite to the direction of travel; a trigger with no room behind it
\* makes no transition.
C25_DoorCrossing ==
    ev.op = "update" =>
        /\ Len(ev.door) <= 1
        /\ ev.doorMiss => ev.door = <<>>
        /\ \A k \in 1..Len(ev.door) :
              LET d == ev.door[k]
              IN  /\ d.dir \in Directions
                  /\ d.open
                  /\ d.room \in 1..Len(dungeon)
                  /\ ev.loads = 0 =>
                        /\ currentRoom = d.room
                        /\ dungeon[currentRoom].x = d.x + DirOffset(d.dir).x
                        /\ dungeon[currentRoom].y = d.y + DirOffset(d.dir).y
                        /\ d.dir = "LEFT" => player.x = CANVAS_WIDTH - TILE_SIZE - 16 - player.w
                        /\ d.dir = "RIGHT" => player.x = TILE_SIZE + 16
                        /\ d.dir = "UP" => player.y = CANVAS_HEIGHT - TILE_SIZE - 16 - player.h
                        /\ d.dir = "DOWN" => player.y = TILE_SIZE + 16

\* C25 witness: the player walked back out of the boss room through its
\* right door and stands at the left edge of the room next to it.
C25_BackThroughDoorWitness ==
    /\ ev.op = "update" /\ Len(ev.door) = 1 /\ ev.door[1].dir = "RIGHT"
    /\ currentRoom = ev.door[1].room
    /\ dungeon[currentRoom].type = "NORMAL" /\ dungeon[currentRoom].visited
    /\ player.x = TILE_SIZE + 16

\* C26: a call of update in status PLAYING with no current room completes
\* without error, and moves neither the player nor any entity.
C26_NoRoomNoOp ==
    [][ (ev'.op = "update" /\ ev'.gate = "PLAYING" /\ currentRoom' = 0)
        => /\ ~ev'.threw
           /\ player'.x = player.x /\ player'.y = player.y
           /\ entities' = entities ]_vars

\* C27: when a weighted-choice draw yields no selection, the spawn operation
\* that drew is skipped entirely: spawnItem and spawnEnemiesForRoom add no
\* entity of any kind to the live set for that draw.
C27_NoChoiceNoSpawn ==
    \A k \in 1..Len(ev.draws) : ~ev.draws[k].chosen => ev.draws[k].pushed = 0

\* C28: an unknown configuration identifier behaves like the first
\* configuration of its kind.  createPlayer with an unknown character id
\* yields the base stats of the first character; a killed enemy of unknown
\* type is scored with the first enemy configuration; a collected item of
\* unknown type applies the stat deltas of the first item configuration.
C28_UnknownIdFallsBack ==
    /\ \A k \in 1..Len(ev.post) :
          ev.post[k].characterId \notin CharacterIds
              => ev.post[k].player.stats = CHARACTERS[1].baseStats
    /\ \A k \in 1..Len(ev.kills) :
          (/\ FindBy(ENEMIES, "type", ev.kills[k].enemyType) = <<>>
           /\ FindBy(BOSSES, "type", ev.kills[k].enemyType) = <<>>)
              => ev.kills[k].gain = ENEMIES[1].scoreValue
    /\ \A k \in 1..Len(ev.lookup) :
          ~ev.lookup[k].found => ev.mods = ITEMS[1].stats

\* C29: each enemy awards its score exactly once.  Within one call no enemy
\* is scored twice, even when several player projectiles overlap the same
\* enemy in the tick in which it dies: an enemy already marked for removal
\* takes no further hit, score or drop roll.
C29_ScoreOncePerEnemy ==
    /\ \A a, b \in 1..Len(ev.kills) : ev.kills[a].id = ev.kills[b].id => a = b
    /\ \A a \in 1..Len(ev.kills) : ~ev.kills[a].dead

\* C30: once the status has become GAME_OVER inside a tick, the rest of that
\* tick changes nothing about the outcome of the run: player hp, inventory,
\* score and floor level are at the end of the update what they were at the
\* moment of death, and status GAME_OVER implies hp <= 0.
C30_DeathEndsTick ==
    /\ ev.death # <<>> =>
          /\ player.stats.hp = ev.death[1].hp
          /\ player.inventory = ev.death[1].inventory
          /\ score = ev.death[1].score
          /\ floorLevel = ev.death[1].floorLevel
    /\ status = "GAME_OVER" => player.stats.hp <= 0

\* C31: a projectile acts on the opposing side only and at most once.  A
\* projectile of the player hits enemies only, a projectile of an enemy hits
\* the player only, no projectile hits twice in a call, and a projectile
\* that has hit is gone from the live set when the call returns.
C31_ProjectileOneSided ==
    /\ \A k \in 1..Len(ev.shots) :
          /\ ev.shots[k].owner = PLAYER_ID => ev.shots[k].kind = "ENEMY"
          /\ ev.shots[k].owner # PLAYER_ID =>
                ev.shots[k].kind = "PLAYER" /\ ev.shots[k].target = PLAYER_ID
          /\ \A j \in 1..Len(entities) : entities[j].id # ev.shots[k].id
    /\ \A a, b \in 1..Len(ev.shots) : ev.shots[a].id = ev.shots[b].id => a = b

\* C31 witness: a projectile of the player has hit an enemy that lives on.
C31_HitWitness ==
    \E k \in 1..Len(ev.shots) :
       /\ ev.shots[k].owner = PLAYER_ID
       /\ \E j \in 1..Len(entities) :
             /\ entities[j].id = ev.shots[k].target
             /\ entities[j].hp < ev.shots[k].hp

\* C32: the player fires only in a tick with a shoot intent whose cooldown
\* has run out, and the cooldown is then stats.fireRate, so that two firing
\* ticks are at least fireRate ticks apart.  A firing adds exactly shotSpread
\* projectiles, one, three or four, all owned by the player and with travel
\* budget stats.range; a tick that did not fire leaves no new projectile of
\* the player.
C32_PlayerFiring ==
    /\ Len(ev.fire) <= 1
    /\ \A k \in 1..Len(ev.fire) :
          LET f == ev.fire[k]
          IN  /\ f.intent
              /\ f.cooldown <= 1
              /\ player.cooldown = f.stats.fireRate
              /\ ev.shotRate = 0 \/ ev.shotSince >= ev.shotRate
              /\ f.stats.shotSpread \in {1, 3, 4}
              /\ Len(f.added) = f.stats.shotSpread
              /\ Len(f.added) >= 1
              /\ \A j \in 1..Len(f.added) :
                    /\ f.added[j].type = "PROJECTILE"
                    /\ f.added[j].ownerId = PLAYER_ID
                    /\ f.added[j].lifeTime = f.stats.range
    /\ (ev.op = "update" /\ ev.ran /\ ev.fire = <<>>) =>
          \A j \in 1..Len(entities) :
             (entities[j].type = "PROJECTILE" /\ entities[j].ownerId = PLAYER_ID)
                 => entities[j].age >= 2

\* C32 witness: a fan of three is fired as soon as the cooldown of the
\* firing before it has run out.
C32_SecondFanWitness ==
    /\ ev.fire # <<>>
    /\ ev.shotRate > 0
    /\ ev.shotSince = ev.shotRate
    /\ Len(ev.fire[1].added) = 3

\* C33: enemy spawning on room entry.  Entering the START room or a cleared
\* room adds no enemy; entering a boss room that is not cleared, for the
\* first time or again, leaves exactly one boss in the live set; entering a
\* normal room that is not cleared adds at most floorLevel + 4 enemies, each
\* at distance >= 150 from the player and with no corner of its box on a
\* wall tile, on a rock tile or outside the grid.
C33_SpawnOnEntry ==
    \A k \in 1..Len(ev.entered) :
       LET r == ev.entered[k]
           enemies == SelectSeq(r.live, LAMBDA e : e.type = "ENEMY")
           solid(x, y) ==
               \/ x < 0 \/ y < 0
               \/ y \div TILE_SIZE >= Len(r.layout)
               \/ x \div TILE_SIZE >= Len(r.layout[1])
               \/ r.layout[y \div TILE_SIZE + 1][x \div TILE_SIZE + 1] \in {1, 2}
       IN  /\ (r.type = "START" \/ r.cleared) => enemies = <<>>
           /\ (r.type = "BOSS" /\ ~r.cleared) =>
                 Len(enemies) = 1 /\ enemies[1].enemyType = "BOSS"
           /\ (r.type = "NORMAL" /\ ~r.cleared) =>
                 /\ Len(enemies) <= r.floorLevel + 4
                 /\ \A j \in 1..Len(enemies) :
                       LET e == enemies[j]
                       IN  /\ (e.x - r.x) * (e.x - r.x) + (e.y - r.y) * (e.y - r.y)
                                 >= 150 * 150
                           /\ ~solid(e.x, e.y) /\ ~solid(e.x + e.w, e.y)
                           /\ ~solid(e.x, e.y + e.h) /\ ~solid(e.x + e.w, e.y + e.h)

\* C33 witness: a boss room that was left without being cleared is entered
\* again and holds one boss.
C33_BossAgainWitness ==
    \E k \in 1..Len(ev.entered) :
       /\ ev.entered[k].type = "BOSS"
       /\ ev.entered[k].visited
       /\ ~ev.entered[k].cleared
       /\ \E j \in 1..Len(ev.entered[k].live) : ev.entered[k].live[j].enemyType = "BOSS"

\* C34 as stated: a tick in which the player overlaps a live trapdoor raises
\* floorLevel by exactly 1 and leaves the stats and the inventory of the
\* player and the score as they were when the tick began.
C34_TickFrame ==
    [][ev'.floor # <<>> =>
          /\ floorLevel' = floorLevel + 1
          /\ player'.stats = player.stats
          /\ player'.inventory = player.inventory
          /\ score' = score]_vars

\* C34, amended: floor advance.  A tick in which the player overlaps a live
\* trapdoor raises floorLevel by exactly 1, replaces the dungeon by one in
\* which only the START room, now current, has been visited, centres the
\* player, discards the old live set and leaves the stats and the inventory
\* of the player and the score as they were when the trapdoor was reached
\* in the walk over the entities; floorLevel changes in no other way except
\* the reset to 1 by startNewGame, and rises by at most 1 per update.
C34_FloorAdvance ==
    [][/\ Len(ev'.floor) <= 1
       /\ ev'.floor # <<>> =>
             /\ floorLevel' = floorLevel + 1
             /\ floorLevel' = ev'.floor[1].floorLevel + 1
             /\ currentRoom' # 0
             /\ \A r \in 1..Len(dungeon') :
                   /\ dungeon'[r].visited = (r = currentRoom')
                   /\ dungeon'[r].savedEntities = <<>>
                   /\ (r = currentRoom') = (dungeon'[r].type = "START")
             /\ player'.x = CANVAS_WIDTH \div 2 - player'.w \div 2
             /\ player'.y = CANVAS_HEIGHT \div 2 - player'.h \div 2
             /\ IdsOf(entities') \cap (IdsOf(entities) \cup ev'.floor[1].live) = {}
             /\ player'.stats = ev'.floor[1].stats
             /\ player'.inventory = ev'.floor[1].inventory
             /\ score' = ev'.floor[1].score
       /\ floorLevel' # floorLevel =>
             \/ ev'.floor # <<>>
             \/ floorLevel' = 1 /\ (ev'.started > 0 \/ ev'.op = "startNewGame")]_vars

\* C34 witness: the second floor has been reached through the trapdoor with
\* a score and an inventory.
C34_SecondFloorWitness ==
    /\ ev.floor # <<>>
    /\ floorLevel = 2
    /\ score > 0
    /\ player.inventory # <<>>

\* C35: tile collision in resolveWallCollision.  The coordinate of an entity
\* on an axis changes, by the velocity on that axis, exactly if at the new
\* position no corner of its feet rectangle lies on a wall tile, on a rock
\* tile (unless the entity is a flying enemy) or outside the tile grid; a
\* blocked axis leaves its coordinate unchanged while the other axis is
\* still resolved on its own.
C35_TileCollision ==
    \A k \in 1..Len(ev.wall) :
       LET before == ev.wall[k].before
           after == ev.wall[k].after
           tiles == ev.wall[k].layout
           fly == before.type = "ENEMY" /\ before.flying
           solid(px, py) ==
               \/ py \div TILE_SIZE < 0
               \/ py \div TILE_SIZE >= Len(tiles)
               \/ px \div TILE_SIZE < 0
               \/ px \div TILE_SIZE >= Len(tiles[1])
               \/ tiles[py \div TILE_SIZE + 1][px \div TILE_SIZE + 1] = 1
               \/ /\ ~fly
                  /\ tiles[py \div TILE_SIZE + 1][px \div TILE_SIZE + 1] = 2
           free(fx, fy) ==
               /\ ~solid(fx + 4, fy + before.h \div 2)
               /\ ~solid(fx + 4 + before.w - 8, fy + before.h \div 2)
               /\ ~solid(fx + 4, fy + before.h \div 2 + before.h \div 2)
               /\ ~solid(fx + 4 + before.w - 8,
                         fy + before.h \div 2 + before.h \div 2)
       IN  /\ after.x = (IF free(before.x + before.vx, before.y)
                         THEN before.x + before.vx ELSE before.x)
           /\ after.y = (IF free(after.x, before.y + before.vy)
                         THEN before.y + before.vy ELSE before.y)
           /\ [after EXCEPT !.x = before.x, !.y = before.y] = before

\* C35 witness: a ground enemy stopped by the rock on one axis slides along
\* it on the other, where a flying enemy would pass.
C35_SlideWitness ==
    \E k \in 1..Len(ev.wall) :
       /\ ev.wall[k].before.type = "ENEMY"
       /\ ~ev.wall[k].before.flying
       /\ ev.wall[k].before.vx # 0
       /\ ev.wall[k].after.x = ev.wall[k].before.x
       /\ ev.wall[k].after.y # ev.wall[k].before.y
       /\ resolveWallCollision(ev.wall[k].layout,
                                [ev.wall[k].before EXCEPT !.flying = TRUE]).x
             # ev.wall[k].before.x

\* C36: no ground enemy is ever inside solid terrain.  In every state with a
\* room loaded, no corner of the feet rectangle of a live enemy that does not
\* fly lies on a wall tile, on a rock tile or outside the tile grid.
C36_GroundEnemiesClear ==
    currentRoom # 0 =>
       \A k \in 1..Len(entities) :
          (/\ entities[k].type = "ENEMY"
           /\ ~entities[k].flying
           /\ ~entities[k].markedForDeletion)
          => \A dx \in {4, entities[k].w - 4},
                dy \in {entities[k].h \div 2, 2 * (entities[k].h \div 2)} :
                TileAt(dungeon[currentRoom].layout,
                       (entities[k].y + dy) \div TILE_SIZE,
                       (entities[k].x + dx) \div TILE_SIZE) \notin {-1, 1, 2}

\* C37: boss behaviour.  A call of updateEnemy on a boss farther than 100
\* from the player sets its velocity toward the player at its speed stat when
\* the advanced tick counter is a multiple of 5 and leaves the velocity alone
\* otherwise; a call on a boss within 100 of the player, with no knockback
\* left on it, leaves the boss where it was.
C37_BossBehaviour ==
    \A k \in 1..Len(ev.ai) :
       ev.ai[k].before.enemyType = "BOSS" =>
          LET boss == ev.ai[k].before
              moved == ev.ai[k].after
              ddx == boss.x - ev.ai[k].px
              ddy == boss.y - ev.ai[k].py
              far == ddx * ddx + ddy * ddy > 100 * 100
          IN  /\ (far /\ (boss.timer + 1) % 5 = 0) =>
                    /\ moved.vx = Sgn(-ddx) * boss.stats.speed
                    /\ moved.vy = Sgn(-ddy) * boss.stats.speed
              /\ (far /\ (boss.timer + 1) % 5 # 0) =>
                    (moved.vx = boss.vx /\ moved.vy = boss.vy)
              /\ (~far /\ boss.kx = 0 /\ boss.ky = 0) =>
                    (moved.x = boss.x /\ moved.y = boss.y)

\* C38 (as stated): the dasher cycle.  A call of updateEnemy on an IDLE
\* dasher whose advanced counter exceeds floor(60 / (speed / 0.1)) makes it
\* ATTACK with the counter at 0 and a velocity of 4 times its speed toward
\* the player, and leaves it IDLE otherwise; a call on an ATTACK dasher whose
\* advanced counter exceeds 20 makes it IDLE with the counter at 0, and
\* leaves it ATTACK otherwise; a dasher that is IDLE as the call ends has
\* velocity zero; and while the game is PLAYING a live dasher does not stay
\* IDLE for ever nor ATTACK for ever.
C38_DasherCycle ==
    /\ [](\A k \in 1..Len(ev.ai) :
            ev.ai[k].before.enemyType = "DASHER" =>
               LET dasher == ev.ai[k].before
                   done == ev.ai[k].after
                   waitTime == (60 * 48) \div dasher.stats.speed
               IN  /\ (dasher.aiState = "IDLE" /\ dasher.timer + 1 > waitTime) =>
                         /\ done.aiState = "ATTACK" /\ done.timer = 0
                         /\ done.vx = Sgn(ev.ai[k].px - dasher.x) * 4 * dasher.stats.speed
                         /\ done.vy = Sgn(ev.ai[k].py - dasher.y) * 4 * dasher.stats.speed
                   /\ (dasher.aiState = "IDLE" /\ dasher.timer + 1 <= waitTime) =>
                         (done.aiState = "IDLE" /\ done.timer = dasher.timer + 1)
                   /\ (dasher.aiState = "ATTACK" /\ dasher.timer + 1 > 20) =>
                         (done.aiState = "IDLE" /\ done.timer = 0)
                   /\ (dasher.aiState = "ATTACK" /\ dasher.timer + 1 <= 20) =>
                         (done.aiState = "ATTACK" /\ done.timer = dasher.timer + 1)
                   /\ done.aiState = "IDLE" => (done.vx = 0 /\ done.vy = 0))
    /\ (status = "PLAYING" /\ \E k \in 1..Len(entities) :
            /\ entities[k].enemyType = "DASHER" /\ ~entities[k].markedForDeletion
            /\ entities[k].aiState = "IDLE")
          ~> ~(status = "PLAYING" /\ \E k \in 1..Len(entities) :
                  /\ entities[k].enemyType = "DASHER" /\ ~entities[k].markedForDeletion
                  /\ entities[k].aiState = "IDLE")
    /\ (status = "PLAYING" /\ \E k \in 1..Len(entities) :
            /\ entities[k].enemyType = "DASHER" /\ ~entities[k].markedForDeletion
            /\ entities[k].aiState = "ATTACK")
          ~> ~(status = "PLAYING" /\ \E k \in 1..Len(entities) :
                  /\ entities[k].enemyType = "DASHER" /\ ~entities[k].markedForDeletion
                  /\ entities[k].aiState = "ATTACK")

\* C38 (amended): as above, but the velocity is zero as the call ends for a
\* dasher that was IDLE before the call and is IDLE after it; the call that
\* takes it from ATTACK back to IDLE neither sets nor clears the velocity.
C38_DasherCycleSettled ==
    /\ [](\A k \in 1..Len(ev.ai) :
            ev.ai[k].before.enemyType = "DASHER" =>
               LET dasher == ev.ai[k].before
                   done == ev.ai[k].after
                   waitTime == (60 * 48) \div dasher.stats.speed
               IN  /\ (dasher.aiState = "IDLE" /\ dasher.timer + 1 > waitTime) =>
                         /\ done.aiState = "ATTACK" /\ done.timer = 0
                         /\ done.vx = Sgn(ev.ai[k].px - dasher.x) * 4 * dasher.stats.speed
                         /\ done.vy = Sgn(ev.ai[k].py - dasher.y) * 4 * dasher.stats.speed
                   /\ (dasher.aiState = "IDLE" /\ dasher.timer + 1 <= waitTime) =>
                         /\ done.aiState = "IDLE" /\ done.timer = dasher.timer + 1
                         /\ done.vx = 0 /\ done.vy = 0
                   /\ (dasher.aiState = "ATTACK" /\ dasher.timer + 1 > 20) =>
                         /\ done.aiState = "IDLE" /\ done.timer = 0
                         /\ done.vx = dasher.vx /\ done.vy = dasher.vy
                   /\ (dasher.aiState = "ATTACK" /\ dasher.timer + 1 <= 20) =>
                         /\ done.aiState = "ATTACK" /\ done.timer = dasher.timer + 1
                         /\ done.vx = dasher.vx /\ done.vy = dasher.vy)
    /\ (status = "PLAYING" /\ \E k \in 1..Len(entities) :
            /\ entities[k].enemyType = "DASHER" /\ ~entities[k].markedForDeletion
            /\ entities[k].aiState = "IDLE")
          ~> (status # "PLAYING" \/ \A k \in 1..Len(entities) :
                 entities[k].enemyType = "DASHER" =>
                    (entities[k].markedForDeletion \/ entities[k].aiState # "IDLE"))
    /\ (status = "PLAYING" /\ \E k \in 1..Len(entities) :
            /\ entities[k].enemyType = "DASHER" /\ ~entities[k].markedForDeletion
            /\ entities[k].aiState = "ATTACK")
          ~> (status # "PLAYING" \/ \A k \in 1..Len(entities) :
                 entities[k].enemyType = "DASHER" =>
                    (entities[k].markedForDeletion \/ entities[k].aiState # "ATTACK"))

\* C38 witness: a dasher has come back from ATTACK to IDLE, the velocity of
\* its dash still on it.
C38_BackToIdleWitness ==
    \E k \in 1..Len(ev.ai) :
       /\ ev.ai[k].before.enemyType = "DASHER"
       /\ ev.ai[k].before.aiState = "ATTACK"
       /\ ev.ai[k].after.aiState = "IDLE"
       /\ ev.ai[k].after.vx # 0
       /\ status = "PLAYING"

\* C39: a call of collectItem on a non-pickup item appends its type to the
\* inventory once and changes the stats by the rules, whatever the item's
\* deltas and the stats before: maxHp added and hp raised by the same
\* amount up to the new maxHp, then hp added up to maxHp; speed, shotSpeed
\* and bulletScale added; damage, range and knockback multiplied; fireRate
\* multiplied and held at 5 or more; shotSpread overwritten; a stat with no
\* delta unchanged.  A heart changes hp only and enters no inventory.
C39_ItemStats ==
    [][(ev'.op = "collectItem" /\ Len(ev'.lookup) = 1) =>
          LET prior == player.stats
              stats == player'.stats
              mods == IF ev'.lookup[1].found THEN ev'.mods ELSE NoMods
              raised == IF mods.maxHp # 0
                        THEN Min(prior.hp + mods.maxHp, prior.maxHp + mods.maxHp)
                        ELSE prior.hp
              times(stat) == IF mods[stat] # 0 THEN (prior[stat] * mods[stat]) \div 100
                             ELSE prior[stat]
          IN  IF ev'.lookup[1].itemType = "HEART_PICKUP"
              THEN /\ player'.inventory = player.inventory
                   /\ stats.hp >= prior.hp /\ stats.hp <= prior.maxHp
                   /\ [stats EXCEPT !.hp = prior.hp] = prior
              ELSE /\ player'.inventory = Append(player.inventory, ev'.lookup[1].itemType)
                   /\ stats.maxHp = prior.maxHp + mods.maxHp
                   /\ stats.hp = IF mods.hp # 0 THEN Min(raised + mods.hp, stats.maxHp)
                                 ELSE raised
                   /\ stats.speed = prior.speed + mods.speed
                   /\ stats.shotSpeed = prior.shotSpeed + mods.shotSpeed
                   /\ stats.bulletScale = prior.bulletScale + mods.bulletScale
                   /\ stats.damage = times("damage")
                   /\ stats.range = times("range")
                   /\ stats.knockback = times("knockback")
                   /\ stats.fireRate = IF mods.fireRate # 0
                                       THEN Max(5, times("fireRate"))
                                       ELSE prior.fireRate
                   /\ stats.shotSpread = IF mods.shotSpread # 0 THEN mods.shotSpread
                                         ELSE prior.shotSpread]_vars

\* The item that carries every delta has been collected by the 2/3-hp
\* character as its second item, after one that halved the damage.
C39_EveryStatWitness ==
    /\ ev.op = "collectItem" /\ ev.mods.shotSpread = 3 /\ ev.mods.damage = 150
    /\ characterId = "alpha" /\ Len(player.inventory) = 2
    /\ player.stats.damage = 3 /\ player.stats.range = 72
    /\ player.stats.maxHp = 4 /\ player.stats.hp = 4
    /\ player.stats.fireRate = 9 /\ player.stats.shotSpread = 3

\* C40: with update called on PLAYING frames only, a call of update that
\* flips the status begins PLAYING and ends PAUSED; no step taken from a
\* PAUSED engine is a call of update or hands a snapshot to the UI callback;
\* a PAUSED engine becomes PLAYING by resumeGame only, and startNewGame is
\* the one other operation that makes an engine PLAYING; and the first
\* update after a resume, if it finds the pause key down as the last update
\* before the pause did, leaves the status alone.
C40_HostPause ==
    [][ /\ (ev'.op = "update" /\ ev'.toggled) =>
              (status = "PLAYING" /\ status' = "PAUSED")
        /\ status = "PAUSED" => (ev'.op # "update" /\ ev'.ui = 0)
        /\ (status = "PAUSED" /\ status' = "PLAYING") => ev'.op = "resumeGame"
        /\ (status # "PLAYING" /\ status' = "PLAYING") =>
              ev'.op \in {"resumeGame", "startNewGame"}
        /\ (ev.op = "resumeGame" /\ ev'.op = "update" /\ ev'.pause /\ hist.lastPause) =>
              (~ev'.toggled /\ status' # "PAUSED" /\ pauseLocked')
      ]_vars

\* C40 witness: the key that paused the game was still down on the first
\* frame after the resume button, and the game plays on.
C40_HeldThroughResumeWitness ==
    /\ ev.op = "update" /\ ev.afterResume /\ ev.pause /\ ev.prevPause
    /\ ~ev.toggled /\ status = "PLAYING" /\ pauseLocked

=============================================================================
